---- MODULE Spec2Model ----
(***************************************************************************)
(* Model of class_scanner_rs: the array processor                          *)
(* (src/operations/arrays/mod.rs), the two inheritance resolvers           *)
(* (src/ast/inheritance_visitor.rs, src/operations/inheritance/mod.rs),    *)
(* the tokenizer (src/lexer/tokenizer.rs), the parser (src/parser/mod.rs)  *)
(* and the preprocessor (src/lexer/preprocessor.rs,                        *)
(* src/utils/path_resolver.rs).                                            *)
(*                                                                         *)
(* SpecArr   : ArrayProcessor::process applied to bounded arrays.          *)
(* Spec      : a resolver instance over a registered class_map; process /  *)
(*             resolve_class / resolve run step by step, one action per    *)
(*             entry into and per return from                              *)
(*             process_with_cycle_detection.                               *)
(* SpecTok   : Tokenizer::tokenize on a bounded text, one action per token *)
(*             pushed.                                                     *)
(* SpecPar   : Parser::parse on a bounded token sequence, one action per   *)
(*             turn of the loops of parse and parse_class.                 *)
(* SpecPre   : Preprocessor::process_file over a small file system, one    *)
(*             action per line and per entry into and return from          *)
(*             process_file.                                               *)
(* SpecScan  : ClassScanner (src/lib.rs): process_file, and parse_string   *)
(*             followed by process_inheritance and process_arrays, running *)
(*             the preprocessor, the tokenizer, the parser and the         *)
(*             InheritanceVisitor through their own actions.               *)
(***************************************************************************)
EXTENDS Integers, Sequences, FiniteSets, TLC

VARIABLES
    \* ---- ArrayProcessor::process(base, values, operation) ----
    base, values, operation, array_result, array_pc,
    \* ---- InheritanceVisitor / InheritanceResolver instance ----
    impl,               \* "visitor" (ast::InheritanceVisitor) or "resolver" (operations::InheritanceResolver)
    class_map,          \* HashMap<String, ClassNode>
    processed,          \* names marked as fully processed
    \* ---- one top-level call in flight ----
    pc,                 \* "idle" | "call" | "ret" | "loop" | "done"
    mode,               \* "single" (process / resolve_class) or "all" (resolve)
    target,             \* the class name the caller asked for
    fresh,              \* processed was empty when the top-level call began
    processed_before,   \* processed as it was when the top-level call began
    processing_stack,   \* HashSet<String> of the call
    frames,             \* the recursion: one [class_name, result] per active invocation
    arg,                \* class_name of the invocation being entered
    ret,                \* the Result being returned to the invocation on top
    class_names,        \* resolve(): the keys still to visit, in iteration order
    resolved_classes,   \* resolve(): the Vec being built
    result,             \* the Result the caller received
    \* ---- Tokenizer instance and one tokenize() call ----
    input,              \* the characters given to Tokenizer::new
    preserve_comments,  \* Tokenizer::with_comments
    tz,                 \* [pos, line, column]: the Peekable<Chars> position, self.line, self.column
    tokens,             \* the Vec<Token> tokenize() is building
    tok_result,         \* the Result tokenize() returned
    tok_pc,             \* "off" | "scan" | "done"
    \* ---- Parser instance and one parse() call ----
    ptokens,            \* self.tokens
    current,            \* self.current, the 0-based index of the next token
    class_stack,        \* the ClassNode of every parse_class whose body loop is running
    root,               \* the root node parse() is filling
    parse_result,       \* the Result parse() returned
    parse_pc,           \* "off" | "parse" | "done"
    \* ---- Preprocessor instance, its environment and one process_file() call ----
    fs,                 \* the file system: location -> File(content) or Directory
    cwd,                \* the working directory of the process
    path_resolver,      \* [base_path, include_paths]
    defines,            \* HashMap<String, String>
    processed_files,    \* Vec<PathBuf>
    pp_stack,           \* one frame per process_content that is running
    pp_arg,             \* file_path of the process_file being entered
    pp_ret,             \* the Result a process_file is returning
    resolution,         \* process_line: the last include_path, its file, the resolve_include Result
    pp_result,          \* the Result the caller received
    pp_pc,              \* "off" | "call" | "run" | "ret" | "done"
    \* ---- ClassScanner instance and one pass through its entry points ----
    base_path,          \* Option<PathBuf>: ClassScanner::with_base_path
    entry,              \* "process_file", or "parse_string" followed by process_inheritance
    target_class_name,  \* the class the caller asks process_inheritance for
    classes,            \* the Vec<ClassNode> parse_file / parse_string returned
    scan_result,        \* the Result the caller received
    scan_pc             \* "off" | "preprocess" | "tokenize" | "parse" | "parsed" |
                        \* "registered" | "inherit" | "done"

arr_vars == <<base, values, operation, array_result, array_pc>>
inh_vars == <<impl, class_map, processed, pc, mode, target, fresh, processed_before, processing_stack,
              frames, arg, ret, class_names, resolved_classes, result>>
tok_vars == <<input, preserve_comments, tz, tokens, tok_result, tok_pc>>
par_vars == <<ptokens, current, class_stack, root, parse_result, parse_pc>>
pre_vars == <<fs, cwd, path_resolver, defines, processed_files, pp_stack, pp_arg, pp_ret,
              resolution, pp_result, pp_pc>>
scan_vars == <<base_path, entry, target_class_name, classes, scan_result, scan_pc>>
vars == <<arr_vars, inh_vars, tok_vars, par_vars, pre_vars, scan_vars>>

\* What the actions of one component leave alone.
outside_arr == <<inh_vars, tok_vars, par_vars, pre_vars, scan_vars>>
outside_inh == <<arr_vars, tok_vars, par_vars, pre_vars, scan_vars>>
outside_tok == <<arr_vars, inh_vars, par_vars, pre_vars, scan_vars>>
outside_par == <<arr_vars, inh_vars, tok_vars, pre_vars, scan_vars>>
outside_pre == <<arr_vars, inh_vars, tok_vars, par_vars, scan_vars>>

(***************************************************************************)
(* Bounds                                                                  *)
(***************************************************************************)
MaxLen == 3          \* longest base / values array of SpecArr
MaxPieces == 2       \* most lexemes in one tokenizer input of SpecTok
MaxFragments == 3    \* most fragments in one parser input of SpecPar
MaxLines == 2        \* most lines in the top file of SpecPre

Items == {"a", "b", "c"}

Range(s) == {s[i] : i \in 1..Len(s)}

SeqsUpTo(S, n) == UNION {[1..k -> S] : k \in 0..n}

Count(s, x) == Cardinality({i \in 1..Len(s) : s[i] = x})

(***************************************************************************)
(* ArrayProcessor (src/operations/arrays/mod.rs)                           *)
(***************************************************************************)
\* Mutant: the appended values come first.
append_operation_swapped(b, to_append) == to_append \o b

\* Mutant: values already present in base are not appended again.
append_operation_dedup(b, to_append) ==
    b \o SelectSeq(to_append, LAMBDA item : item \notin Range(b))

\* result = base.to_vec(); result.extend(to_append): nothing is dropped.
append_operation(b, to_append) == b \o to_append

\* Mutant: only the first value to remove is looked at.
remove_operation_first_only(b, to_remove) ==
    LET remove_set == IF to_remove = <<>> THEN {} ELSE {to_remove[1]}
    IN  SelectSeq(b, LAMBDA item : item \notin remove_set)

\* The elements of base that are not in the HashSet built from to_remove.
remove_operation(b, to_remove) ==
    LET remove_set == Range(to_remove)
    IN  SelectSeq(b, LAMBDA item : item \notin remove_set)

\* ArrayProcessor::process: dispatch on the operation.
ArrayProcessor_process(b, v, op) ==
    CASE op = "Append"  -> append_operation(b, v)
      [] op = "Remove"  -> remove_operation(b, v)
      [] op = "Replace" -> v

ProcessArray(op) ==
    /\ array_pc = "ready"
    /\ operation' = op
    /\ array_result' = ArrayProcessor_process(base, values, op)
    /\ array_pc' = "done"
    /\ UNCHANGED <<base, values>>

ProcessAppend == ProcessArray("Append") /\ UNCHANGED outside_arr
ProcessRemove == ProcessArray("Remove") /\ UNCHANGED outside_arr
ProcessReplace == ProcessArray("Replace") /\ UNCHANGED outside_arr

(***************************************************************************)
(* AST nodes (src/ast/mod.rs).  Option<T> is a sequence of length 0 or 1;  *)
(* a HashMap is a function on its key set; a Vec is a sequence.            *)
(***************************************************************************)
None == <<>>
Some(x) == <<x>>

PropertyNode_new(name, value_type, raw_value) ==
    [name |-> name, value_type |-> value_type, raw_value |-> raw_value,
     operation |-> None, array_values |-> <<>>]

\* PropertyNode::new(..Array..) + with_array_values + operation, as the parser and
\* the tests' create_array_property build an array property.
ArrayProperty(name, vals, op) ==
    [name |-> name, value_type |-> "Array", raw_value |-> vals,
     operation |-> op, array_values |-> vals]

ClassNode_new(name) ==
    [name |-> name, parent |-> None, properties |-> <<>>, nested_classes |-> <<>>,
     access |-> "Public", raw_block |-> "", file_path |-> None]

(***************************************************************************)
(* Merging a resolved parent into a child                                  *)
(***************************************************************************)
\* Mutant: an array property is merged even when the child carries no operation
\* (it is then appended), and a non-array parent is not told apart.
merge_property_always(child, parent) ==
    IF child.value_type = "Array"
    THEN [child EXCEPT !.array_values =
            ArrayProcessor_process(parent.array_values, @,
                IF child.operation = None THEN "Append" ELSE child.operation[1])]
    ELSE child

\* InheritanceResolver::merge_property, and the same test inlined in
\* InheritanceVisitor::merge_properties (lines 80-91).
merge_property(child, parent) ==
    IF /\ child.value_type = "Array"
       /\ parent.value_type = "Array"
       /\ child.operation # None
    THEN [child EXCEPT !.array_values =
            ArrayProcessor_process(parent.array_values, @, child.operation[1])]
    ELSE child

\* Mutant: the parent's property overrides the child's.
MergePropertyMaps_parent_wins(child_props, parent_props) ==
    [n \in DOMAIN child_props \cup DOMAIN parent_props |->
        IF n \in DOMAIN parent_props THEN parent_props[n] ELSE child_props[n]]

\* The loop over the parent's properties: a name the child lacks is copied, a name
\* it has goes through merge_property.  Each name is handled on its own, so the
\* HashMap's iteration order does not show in the result.
MergePropertyMaps(child_props, parent_props) ==
    [n \in DOMAIN child_props \cup DOMAIN parent_props |->
        IF n \notin DOMAIN child_props THEN parent_props[n]
        ELSE IF n \in DOMAIN parent_props
             THEN merge_property(child_props[n], parent_props[n])
             ELSE child_props[n]]

\* Index of the first element of list named name, 0 when there is none.
FirstNamed(list, name) ==
    IF \E i \in 1..Len(list) : list[i].name = name
    THEN CHOOSE i \in 1..Len(list) :
            /\ list[i].name = name
            /\ \A j \in 1..(i - 1) : list[j].name # name
    ELSE 0

RECURSIVE merge_properties(_, _)
RECURSIVE MergeNestedVisitor(_, _)

\* InheritanceVisitor::merge_properties, lines 95-108: for each nested class of the
\* parent, in order, merge it into the first nested class of the child with that
\* name, or push a clone of it.
MergeNestedVisitor(child_nested, parent_nested) ==
    IF parent_nested = <<>> THEN child_nested
    ELSE LET pn == Head(parent_nested)
             i == FirstNamed(child_nested, pn.name)
             next == IF i = 0
                     THEN Append(child_nested, pn)
                     ELSE [child_nested EXCEPT ![i] = merge_properties(@, pn)]
         IN  MergeNestedVisitor(next, Tail(parent_nested))

\* InheritanceVisitor::merge_properties.
merge_properties(child, parent) ==
    [child EXCEPT
        !.properties = MergePropertyMaps(child.properties, parent.properties),
        !.nested_classes = MergeNestedVisitor(child.nested_classes, parent.nested_classes)]

\* All orders in which the elements of the set S can be listed.
RECURSIVE Orders(_)
Orders(S) ==
    IF S = {} THEN {<<>>}
    ELSE UNION {{<<x>> \o rest : rest \in Orders(S \ {x})} : x \in S}

\* All sequences whose i-th element is drawn from sets[i].
RECURSIVE Choices(_)
Choices(sets) ==
    IF sets = <<>> THEN {<<>>}
    ELSE {<<h>> \o t : h \in Head(sets), t \in Choices(Tail(sets))}

\* parent.nested_classes collected into a HashMap by name: a later class replaces an
\* earlier one of the same name.
CollectNestedMap(parent_nested) ==
    [n \in {parent_nested[i].name : i \in 1..Len(parent_nested)} |->
        LET last == CHOOSE i \in 1..Len(parent_nested) :
                        /\ parent_nested[i].name = n
                        /\ \A j \in (i + 1)..Len(parent_nested) : parent_nested[j].name # n
        IN  parent_nested[last]]

RECURSIVE merge_with_parent(_, _)

\* InheritanceResolver::merge_with_parent: the set of ClassNodes the call can leave
\* in child.  The parent's nested classes that the child does not declare are
\* appended by nested_map.into_values(), whose order is the HashMap's: any order.
merge_with_parent(child, parent) ==
    LET nested_map == CollectNestedMap(parent.nested_classes)
        cn == child.nested_classes
        \* nested_map.remove succeeds for the first child of a name only
        takes(i) == /\ cn[i].name \in DOMAIN nested_map
                    /\ \A j \in 1..(i - 1) : cn[j].name # cn[i].name
        merged == [i \in 1..Len(cn) |->
                     IF takes(i) THEN merge_with_parent(cn[i], nested_map[cn[i].name])
                     ELSE {cn[i]}]
        remaining == {nested_map[n] : n \in DOMAIN nested_map \ Range([i \in 1..Len(cn) |-> cn[i].name])}
    IN  {[child EXCEPT
            !.properties = MergePropertyMaps(child.properties, parent.properties),
            !.nested_classes = own \o rest] :
         own \in Choices(merged), rest \in Orders(remaining)}

\* Mutant: a nested class that names the merged parent as its own parent
\* inherits that parent's properties.
MergeResults_nested_parent(which, child, parent) ==
    {[merged EXCEPT !.nested_classes =
        [i \in 1..Len(merged.nested_classes) |->
            IF merged.nested_classes[i].parent = Some(parent.name)
            THEN [merged.nested_classes[i] EXCEPT
                    !.properties = MergePropertyMaps(@, parent.properties)]
            ELSE merged.nested_classes[i]]] :
        merged \in (IF which = "visitor" THEN {merge_properties(child, parent)}
                    ELSE merge_with_parent(child, parent))}

\* Mutant: the merge also takes over the parent's access modifier.
MergeResults_parent_access(which, child, parent) ==
    {[merged EXCEPT !.access = parent.access] :
        merged \in (IF which = "visitor" THEN {merge_properties(child, parent)}
                    ELSE merge_with_parent(child, parent))}

\* The ClassNodes a merge can produce, by resolver type.
MergeResults(which, child, parent) ==
    IF which = "visitor" THEN {merge_properties(child, parent)}
    ELSE merge_with_parent(child, parent)

(***************************************************************************)
(* Results and errors (src/error).  An InheritanceError carries a message  *)
(* built by format!; the message is kept as its pieces of text.            *)
(***************************************************************************)
Ok(v) == [ok |-> TRUE, value |-> v]
Err(msg) == [ok |-> FALSE, error |-> msg]
NoResult == [ok |-> FALSE, error |-> <<>>]

CircularMsg(class_name) == <<"Circular inheritance detected involving class ", class_name>>
NotFoundMsg(class_name) == <<"Class ", class_name, " not found">>

\* msg.contains("Circular inheritance").  Class names are identifiers (no blank), so
\* the text can only come from the format string.
IsCircularMsg(msg) ==
    \E i \in 1..Len(msg) : msg[i] = "Circular inheritance detected involving class "

IsNotFoundFor(r, class_name) == ~r.ok /\ r.error = NotFoundMsg(class_name)

(***************************************************************************)
(* process_with_cycle_detection / resolve_class_with_cycle_detection       *)
(***************************************************************************)
\* Mutant: the merged class is written back into the registry.
ClassMapAfterFinish_stored(cm, class_name, merged) == [cm EXCEPT ![class_name] = merged]

\* Lines 64-70: what finishing an invocation leaves in class_map.  The merged value
\* lives in the local `result` only; class_map is read (get + clone), never written.
ClassMapAfterFinish(cm, class_name, merged) == cm

\* Line 68: self.processed.push(class_name) / self.processed.insert(class_name).
ProcessedAfterFinish(done, class_name) == done \cup {class_name}

\* Mutant: the in-progress check is missing.
InProgress_never(stack, class_name) == FALSE

\* Line 38: processing_stack.contains(class_name).
InProgress(stack, class_name) == class_name \in stack

\* Mutant: a missing class is taken for an empty one.
Lookup_default(cm, class_name) ==
    IF class_name \in DOMAIN cm THEN Ok(cm[class_name]) ELSE Ok(ClassNode_new(class_name))

\* Lines 42-44: class_map.get(class_name).ok_or_else(not found)?.clone().
Lookup(cm, class_name) ==
    IF class_name \in DOMAIN cm THEN Ok(cm[class_name]) ELSE Err(NotFoundMsg(class_name))

call_vars == <<mode, target, fresh, processed_before, class_names, resolved_classes, result>>

\* process(class_name) / resolve_class(class_name): a fresh processing stack.
Process(class_name) ==
    /\ pc \in {"idle", "done"}
    /\ pc' = "call"
    /\ mode' = "single"
    /\ target' = class_name
    /\ fresh' = (processed = {})
    /\ processed_before' = processed
    /\ processing_stack' = {}
    /\ frames' = <<>>
    /\ arg' = class_name
    /\ ret' = NoResult
    /\ result' = NoResult
    /\ class_names' = <<>>
    /\ resolved_classes' = <<>>
    /\ UNCHANGED <<impl, class_map, processed>>

\* Lines 33-35: an already processed class is answered from class_map.
ReturnProcessed ==
    /\ pc = "call"
    /\ arg \in processed
    /\ ret' = Ok(class_map[arg])
    /\ pc' = "ret"
    /\ UNCHANGED <<impl, class_map, processed, processing_stack, frames, arg>>
    /\ UNCHANGED call_vars

\* Lines 38-40: the class is on the processing stack.
DetectCycle ==
    /\ pc = "call"
    /\ arg \notin processed
    /\ InProgress(processing_stack, arg)
    /\ ret' = Err(CircularMsg(arg))
    /\ pc' = "ret"
    /\ UNCHANGED <<impl, class_map, processed, processing_stack, frames, arg>>
    /\ UNCHANGED call_vars

\* Lines 42-44 failing: the `?` returns the error.
ClassNotFound ==
    /\ pc = "call"
    /\ arg \notin processed
    /\ ~InProgress(processing_stack, arg)
    /\ ~Lookup(class_map, arg).ok
    /\ ret' = Lookup(class_map, arg)
    /\ pc' = "ret"
    /\ UNCHANGED <<impl, class_map, processed, processing_stack, frames, arg>>
    /\ UNCHANGED call_vars

\* Lines 42-53 with a parent: clone the class, mark it in progress, recurse.
EnterWithParent ==
    /\ pc = "call"
    /\ arg \notin processed
    /\ ~InProgress(processing_stack, arg)
    /\ Lookup(class_map, arg).ok
    /\ LET class == Lookup(class_map, arg).value
       IN  /\ class.parent # None
           /\ frames' = Append(frames, [class_name |-> arg, result |-> class])
           /\ processing_stack' = processing_stack \cup {arg}
           /\ arg' = class.parent[1]
    /\ pc' = "call"
    /\ UNCHANGED <<impl, class_map, processed, ret>>
    /\ UNCHANGED call_vars

\* Lines 42-70 without a parent: the clone is the result.
FinishWithoutParent ==
    /\ pc = "call"
    /\ arg \notin processed
    /\ ~InProgress(processing_stack, arg)
    /\ Lookup(class_map, arg).ok
    /\ LET class == Lookup(class_map, arg).value
       IN  /\ class.parent = None
           /\ processing_stack' = (processing_stack \cup {arg}) \ {arg}
           /\ processed' = ProcessedAfterFinish(processed, arg)
           /\ class_map' = ClassMapAfterFinish(class_map, arg, class)
           /\ ret' = Ok(class)
    /\ pc' = "ret"
    /\ UNCHANGED <<impl, frames, arg>>
    /\ UNCHANGED call_vars

Top == frames[Len(frames)]
Pop == SubSeq(frames, 1, Len(frames) - 1)

\* Lines 54, 64-70: the parent resolved; merge it, finish this class.
MergeParent ==
    /\ pc = "ret"
    /\ frames # <<>>
    /\ ret.ok
    /\ \E merged \in MergeResults(impl, Top.result, ret.value) :
        /\ processing_stack' = processing_stack \ {Top.class_name}
        /\ processed' = ProcessedAfterFinish(processed, Top.class_name)
        /\ class_map' = ClassMapAfterFinish(class_map, Top.class_name, merged)
        /\ ret' = Ok(merged)
    /\ frames' = Pop
    /\ UNCHANGED <<impl, pc, arg>>
    /\ UNCHANGED call_vars

\* Lines 55-59, 64-70: the parent is in progress; finish with the class's own members.
SkipCircularParent ==
    /\ pc = "ret"
    /\ frames # <<>>
    /\ ~ret.ok
    /\ IsCircularMsg(ret.error)
    /\ processing_stack' = processing_stack \ {Top.class_name}
    /\ processed' = ProcessedAfterFinish(processed, Top.class_name)
    /\ class_map' = ClassMapAfterFinish(class_map, Top.class_name, Top.result)
    /\ ret' = Ok(Top.result)
    /\ frames' = Pop
    /\ UNCHANGED <<impl, pc, arg>>
    /\ UNCHANGED call_vars

\* Mutant: the class whose parent failed is marked as processed all the same.
PropagateError_marks ==
    /\ pc = "ret"
    /\ frames # <<>>
    /\ ~ret.ok
    /\ ~IsCircularMsg(ret.error)
    /\ frames' = Pop
    /\ processed' = ProcessedAfterFinish(processed, Top.class_name)
    /\ UNCHANGED <<impl, class_map, processing_stack, pc, arg, ret>>
    /\ UNCHANGED call_vars

\* Line 60: any other error is returned at once.
PropagateError ==
    /\ pc = "ret"
    /\ frames # <<>>
    /\ ~ret.ok
    /\ ~IsCircularMsg(ret.error)
    /\ frames' = Pop
    /\ UNCHANGED <<impl, class_map, processed, processing_stack, pc, arg, ret>>
    /\ UNCHANGED call_vars

\* process / resolve_class hands the outermost Result to its caller.
ReturnToCaller ==
    /\ pc = "ret"
    /\ frames = <<>>
    /\ mode = "single"
    /\ result' = ret
    /\ pc' = "done"
    /\ UNCHANGED <<impl, class_map, processed, processing_stack, frames, arg, ret,
                   mode, target, fresh, processed_before, class_names, resolved_classes>>

(***************************************************************************)
(* InheritanceResolver::resolve: every class of class_map                  *)
(***************************************************************************)
\* Lines 24-25: the keys of class_map, in the HashMap's iteration order.
Resolve(order) ==
    /\ pc \in {"idle", "done"}
    /\ impl = "resolver"
    /\ pc' = "loop"
    /\ mode' = "all"
    /\ target' = ""
    /\ fresh' = (processed = {})
    /\ processed_before' = processed
    /\ class_names' = order
    /\ resolved_classes' = <<>>
    /\ processing_stack' = {}
    /\ frames' = <<>>
    /\ arg' = ""
    /\ ret' = NoResult
    /\ result' = NoResult
    /\ UNCHANGED <<impl, class_map, processed>>

\* Lines 27-29: the next key is not processed yet: resolve it.
ResolveNext ==
    /\ pc = "loop"
    /\ class_names # <<>>
    /\ Head(class_names) \notin processed
    /\ arg' = Head(class_names)
    /\ class_names' = Tail(class_names)
    /\ processing_stack' = {}
    /\ frames' = <<>>
    /\ pc' = "call"
    /\ UNCHANGED <<impl, class_map, processed, ret, mode, target, fresh, processed_before,
                   resolved_classes, result>>

\* Line 28: a key already in processed is passed over.
ResolveSkip ==
    /\ pc = "loop"
    /\ class_names # <<>>
    /\ Head(class_names) \in processed
    /\ class_names' = Tail(class_names)
    /\ UNCHANGED <<impl, class_map, processed, pc, processing_stack, frames, arg, ret,
                   mode, target, fresh, processed_before, resolved_classes, result>>

\* Lines 29-30: a resolved class is pushed; an error ends resolve() (`?`).
ResolveCollect ==
    /\ pc = "ret"
    /\ frames = <<>>
    /\ mode = "all"
    /\ IF ret.ok
       THEN /\ resolved_classes' = Append(resolved_classes, ret.value)
            /\ pc' = "loop"
            /\ UNCHANGED result
       ELSE /\ result' = ret
            /\ pc' = "done"
            /\ UNCHANGED resolved_classes
    /\ UNCHANGED <<impl, class_map, processed, processing_stack, frames, arg, ret,
                   mode, target, fresh, processed_before, class_names>>

\* Line 34: Ok(resolved_classes).
ResolveDone ==
    /\ pc = "loop"
    /\ class_names = <<>>
    /\ result' = Ok(resolved_classes)
    /\ pc' = "done"
    /\ UNCHANGED <<impl, class_map, processed, processing_stack, frames, arg, ret,
                   mode, target, fresh, processed_before, class_names, resolved_classes>>

(***************************************************************************)
(* The registered classes.  class_map is built by register_class /         *)
(* add_class before resolution begins; Init draws it from the families     *)
(* below.  Every registered class is stored under its own name.            *)
(***************************************************************************)
Names == {"A", "B", "C"}
Missing == "M"                      \* a name that is never registered

OwnProp == [A |-> "pA", B |-> "pB", C |-> "pC"]
OwnText == [A |-> "vA", B |-> "vB", C |-> "vC"]
AccessOf == [A |-> "Public", B |-> "Private", C |-> "Public"]
RawOf == [A |-> "class A {..}", B |-> "class B {..}", C |-> "class C {..}"]
FileOf == [A |-> "a.hpp", B |-> "b.hpp", C |-> "c.hpp"]

ParentOptions == {None} \cup {Some(n) : n \in Names \cup {Missing}}

\* What a class can declare for the shared property "x".
StringX(c) == {PropertyNode_new("x", "String", OwnText[c])}
ArrayX == {ArrayProperty("x", <<"a", "b", "c">>, None),
           ArrayProperty("x", <<"d", "e">>, Some("Append")),
           ArrayProperty("x", <<"b", "c">>, Some("Remove")),
           ArrayProperty("x", <<"a", "a">>, Some("Replace"))}

\* A property map: the class's own property, and x when it declares one (xs is a
\* set of at most one PropertyNode).
PropsOf(own, text, xs) ==
    [n \in {own} \cup {p.name : p \in xs} |->
        IF n = own THEN PropertyNode_new(own, "String", text)
        ELSE CHOOSE p \in xs : p.name = n]

\* A nested class named nm declared inside class c.
Nested(c, nm, inner) ==
    [ClassNode_new(nm) EXCEPT
        !.properties = PropsOf(OwnProp[c], OwnText[c], StringX(c)),
        !.nested_classes = inner,
        !.raw_block = RawOf[c]]

NestedMenu(c) ==
    {<<>>,
     <<Nested(c, "N1", <<>>)>>,
     <<Nested(c, "N1", <<>>), Nested(c, "N2", <<>>)>>,
     <<Nested(c, "N2", <<>>), Nested(c, "N1", <<Nested(c, "K", <<>>)>>)>>,
     <<Nested(c, "N3", <<>>), Nested(c, "N2", <<>>), Nested(c, "N3", <<Nested(c, "K", <<>>)>>)>>}

MakeClass(c, parent, xs, nested) ==
    [ClassNode_new(c) EXCEPT
        !.parent = parent,
        !.properties = PropsOf(OwnProp[c], OwnText[c], xs),
        !.nested_classes = nested,
        !.access = AccessOf[c],
        !.raw_block = RawOf[c],
        !.file_path = Some(FileOf[c])]

\* Family 1: any parent links; x is a string or absent; no nested classes.
StringRegistries ==
    {[c \in Names |-> MakeClass(c, par[c], xs[c], <<>>)] :
        par \in [Names -> ParentOptions],
        xs \in {f \in [Names -> {{}} \cup {StringX(c) : c \in Names}] :
                    \A c \in Names : f[c] \in {{}, StringX(c)}}}

\* The parent links of the array and nested families: a chain, a three-cycle, a
\* chain that ends in a two-cycle, two children of one base.
Shapes ==
    {[A |-> None, B |-> Some("A"), C |-> Some("B")],
     [A |-> Some("C"), B |-> Some("A"), C |-> Some("B")],
     [A |-> Some("B"), B |-> Some("A"), C |-> Some("B")],
     [A |-> None, B |-> Some("A"), C |-> Some("A")]}

\* Family 2: x is an array, a string or absent at each class.
ArrayRegistries ==
    {[c \in Names |-> MakeClass(c, par[c], xs[c], <<>>)] :
        par \in Shapes,
        xs \in {f \in [Names -> {{}} \cup {StringX(c) : c \in Names} \cup {{p} : p \in ArrayX}] :
                    \A c \in Names : f[c] \in {{}, StringX(c)} \cup {{p} : p \in ArrayX}}}

\* Family 3: nested classes.
NestedRegistries ==
    {[c \in Names |-> MakeClass(c, par[c], {}, ns[c])] :
        par \in Shapes,
        ns \in {f \in [Names -> UNION {NestedMenu(c) : c \in Names}] :
                    \A c \in Names : f[c] \in NestedMenu(c)}}

\* Family 4: the nested class N1 of C, and of A when A has one, names a
\* registered class or a missing one as its own parent.
InheritingNestedRegistries ==
    {[c \in Names |->
        MakeClass(c, par[c], {},
                  IF c \in holders
                  THEN <<[Nested(c, "N1", <<>>) EXCEPT !.parent = nested_parent]>>
                  ELSE <<>>)] :
        par \in Shapes,
        nested_parent \in {Some("A"), Some("B"), Some(Missing)},
        holders \in {{"C"}, {"A", "C"}}}

Registries == StringRegistries \cup ArrayRegistries \cup NestedRegistries
              \cup InheritingNestedRegistries

IdleArr ==
    /\ base = <<>>
    /\ values = <<>>
    /\ operation = "Replace"
    /\ array_result = <<>>
    /\ array_pc = "off"

IdleInh ==
    /\ impl = "visitor"
    /\ class_map = <<>>
    /\ processed = {}
    /\ pc = "off"
    /\ mode = "single"
    /\ target = ""
    /\ fresh = TRUE
    /\ processed_before = {}
    /\ processing_stack = {}
    /\ frames = <<>>
    /\ arg = ""
    /\ ret = NoResult
    /\ class_names = <<>>
    /\ resolved_classes = <<>>
    /\ result = NoResult

\* No tokenizer is in use.
IdleTok ==
    /\ input = <<>>
    /\ preserve_comments = FALSE
    /\ tz = [pos |-> 1, line |-> 1, column |-> 0]
    /\ tokens = <<>>
    /\ tok_result = NoResult
    /\ tok_pc = "off"

\* No preprocessor is in use.
IdlePre ==
    /\ fs = <<>>
    /\ cwd = ""
    /\ path_resolver = [base_path |-> "", include_paths |-> <<>>]
    /\ defines = <<>>
    /\ processed_files = <<>>
    /\ pp_stack = <<>>
    /\ pp_arg = [dir |-> "", name |-> <<>>]
    /\ pp_ret = NoResult
    /\ resolution = <<>>
    /\ pp_result = NoResult
    /\ pp_pc = "off"

\* No parser is in use.
IdlePar ==
    /\ ptokens = <<>>
    /\ current = 0
    /\ class_stack = <<>>
    /\ root = ClassNode_new(<<>>)
    /\ parse_result = NoResult
    /\ parse_pc = "off"

\* No ClassScanner is in use.
IdleScan ==
    /\ base_path = <<>>
    /\ entry = "none"
    /\ target_class_name = <<>>
    /\ classes = <<>>
    /\ scan_result = NoResult
    /\ scan_pc = "off"

\* InheritanceVisitor::new / InheritanceResolver::new followed by the registrations.
Init ==
    /\ IdleScan
    /\ IdleArr
    /\ IdleTok
    /\ IdlePar
    /\ IdlePre
    /\ impl \in {"visitor", "resolver"}
    /\ class_map \in Registries
    /\ processed = {}
    /\ pc = "idle"
    /\ mode = "single"
    /\ target = ""
    /\ fresh = TRUE
    /\ processed_before = {}
    /\ processing_stack = {}
    /\ frames = <<>>
    /\ arg = ""
    /\ ret = NoResult
    /\ class_names = <<>>
    /\ resolved_classes = <<>>
    /\ result = NoResult

Next ==
    \/ (\E class_name \in Names \cup {Missing} : Process(class_name) /\ UNCHANGED outside_inh)
    \/ (ReturnProcessed /\ UNCHANGED outside_inh)
    \/ (DetectCycle /\ UNCHANGED outside_inh)
    \/ (ClassNotFound /\ UNCHANGED outside_inh)
    \/ (EnterWithParent /\ UNCHANGED outside_inh)
    \/ (FinishWithoutParent /\ UNCHANGED outside_inh)
    \/ (MergeParent /\ UNCHANGED outside_inh)
    \/ (SkipCircularParent /\ UNCHANGED outside_inh)
    \/ (PropagateError /\ UNCHANGED outside_inh)
    \/ (ReturnToCaller /\ UNCHANGED outside_inh)
    \/ (\E order \in Orders(DOMAIN class_map) : Resolve(order) /\ UNCHANGED outside_inh)
    \/ (ResolveNext /\ UNCHANGED outside_inh)
    \/ (ResolveSkip /\ UNCHANGED outside_inh)
    \/ (ResolveCollect /\ UNCHANGED outside_inh)
    \/ (ResolveDone /\ UNCHANGED outside_inh)

Spec == Init /\ [][Next]_vars

\* The arguments of one ArrayProcessor::process call; no resolver is in use.
InitArr ==
    /\ IdleScan
    /\ base \in SeqsUpTo(Items, MaxLen)
    /\ values \in SeqsUpTo(Items, MaxLen)
    /\ operation = "Replace"
    /\ array_result = <<>>
    /\ array_pc = "ready"
    /\ IdleInh
    /\ IdleTok
    /\ IdlePar
    /\ IdlePre

NextArr == ProcessAppend \/ ProcessRemove \/ ProcessReplace

SpecArr == InitArr /\ [][NextArr]_vars

(***************************************************************************)
(* Walking the declared parent links of a registry                         *)
(***************************************************************************)
\* The names met from c by following parent links, c first; the walk stops at a
\* class without parent, at a name that is not registered, or at the first name met
\* twice (that name then closes the sequence).
RECURSIVE ParentChain(_, _, _)
ParentChain(cm, c, seen) ==
    IF c \notin DOMAIN cm \/ c \in seen THEN <<c>>
    ELSE IF cm[c].parent = None THEN <<c>>
    ELSE <<c>> \o ParentChain(cm, cm[c].parent[1], seen \cup {c})

Last(s) == s[Len(s)]

\* The chain of c ends at a registered class without parent.
AcyclicRegistered(cm, c) ==
    LET chain == ParentChain(cm, c, {})
    IN  /\ Last(chain) \in DOMAIN cm
        /\ Cardinality(Range(chain)) = Len(chain)

\* The walk from c reaches a name that is not registered.
ReachesMissing(cm, c) == Last(ParentChain(cm, c, {})) \notin DOMAIN cm

\* c lies on a cycle of parent links.
OnCycle(cm, c) ==
    LET chain == ParentChain(cm, c, {})
    IN  Len(chain) > 1 /\ Last(chain) = c

\* The property map section 4.5 step 5 of the specification prescribes for the
\* first class of chain, computed from the last class (the root) downwards.
RECURSIVE ExpectedProperties(_, _)
ExpectedProperties(cm, chain) ==
    LET own == cm[Head(chain)].properties
    IN  IF Len(chain) = 1 THEN own
        ELSE LET inherited == ExpectedProperties(cm, Tail(chain))
             IN  [n \in DOMAIN own \cup DOMAIN inherited |->
                    IF n \notin DOMAIN own THEN inherited[n]
                    ELSE IF /\ n \in DOMAIN inherited
                            /\ own[n].value_type = "Array"
                            /\ inherited[n].value_type = "Array"
                            /\ own[n].operation # None
                         THEN [own[n] EXCEPT !.array_values =
                                ArrayProcessor_process(inherited[n].array_values,
                                                       own[n].array_values,
                                                       own[n].operation[1])]
                         ELSE own[n]]

Returned == pc = "done" /\ mode = "single"
ReturnedAll == pc = "done" /\ mode = "all"

(***************************************************************************)
(* Claims                                                                  *)
(***************************************************************************)

\* C1: on a fresh resolver, for a class whose parent chain is acyclic and fully
\* registered, the resolved property names are exactly the names declared on the
\* chain, and every property whose nearest declaration is not an array is that
\* declaration unchanged.
C1_ChainUnionNearestWins ==
    (Returned /\ fresh /\ AcyclicRegistered(class_map, target)) =>
        LET chain == ParentChain(class_map, target, {})
            declared == UNION {DOMAIN class_map[chain[i]].properties : i \in 1..Len(chain)}
            nearest(n) == class_map[chain[CHOOSE i \in 1..Len(chain) :
                            /\ n \in DOMAIN class_map[chain[i]].properties
                            /\ \A j \in 1..(i - 1) :
                                 n \notin DOMAIN class_map[chain[j]].properties]]
        IN  /\ result.ok
            /\ DOMAIN result.value.properties = declared
            /\ \A n \in declared :
                 nearest(n).properties[n].value_type # "Array" =>
                    result.value.properties[n] = nearest(n).properties[n]

\* C1 witness: B : A resolved first, C another child of A; all three declare x.
C1_Witness ==
    /\ Returned /\ fresh /\ target = "B" /\ result.ok
    /\ class_map["B"].parent = Some("A")
    /\ class_map["C"].parent = Some("A")
    /\ class_map["A"].parent = None
    /\ \A c \in Names : "x" \in DOMAIN class_map[c].properties
    /\ class_map["A"].properties["x"].value_type = "String"
    /\ result.value.properties["x"].raw_value = "vB"
    /\ DOMAIN result.value.properties = {"pA", "pB", "x"}

\* C2 (as claimed): whatever calls ran before on the instance, resolve(C) returns
\* the fully merged class a fresh instance returns, and resolve-all returns every
\* registered class fully merged.
C2_SameAsFreshInstance ==
    /\ (Returned /\ result.ok /\ AcyclicRegistered(class_map, target)) =>
          result.value.properties =
              ExpectedProperties(class_map, ParentChain(class_map, target, {}))
    /\ (ReturnedAll /\ result.ok) =>
          \A c \in DOMAIN class_map :
             \E i \in 1..Len(result.value) :
                /\ result.value[i].name = c
                /\ AcyclicRegistered(class_map, c) =>
                     result.value[i].properties =
                         ExpectedProperties(class_map, ParentChain(class_map, c, {}))

\* Steps of one top-level call that are still to be taken, at most.
NumClasses == Cardinality(DOMAIN class_map)
Measure ==
    LET per_class == 2 * NumClasses + 4
        outer == Len(class_names) * per_class
    IN  CASE pc = "call" -> outer + 2 * NumClasses + 3 - Len(frames)
          [] pc = "ret"  -> outer + Len(frames) + 2
          [] pc = "loop" -> outer + 1
          [] OTHER       -> 0

Running == pc \in {"call", "ret", "loop"}

\* C3: for any parent links (self-parent and cycles included) a call terminates:
\* the recursion never holds more invocations than there are registered classes,
\* each invocation holds a different class, a running call can always take a step,
\* and every step lowers a natural-number measure.  When no class on the path is
\* missing, the call returns a ClassNode holding the target's own declared
\* properties.
C3_TerminatesWithOwnProperties ==
    /\ [](/\ Len(frames) <= NumClasses
          /\ \A i, j \in 1..Len(frames) : frames[i].class_name = frames[j].class_name => i = j
          /\ Measure >= 0
          /\ Running => ENABLED Next
          /\ (Returned /\ target \in DOMAIN class_map /\ ~ReachesMissing(class_map, target)) =>
                /\ result.ok
                /\ result.value.name = target
                /\ \A n \in DOMAIN class_map[target].properties :
                     /\ n \in DOMAIN result.value.properties
                     /\ class_map[target].properties[n].value_type # "Array" =>
                          result.value.properties[n] = class_map[target].properties[n])
    /\ [][Running => Measure' < Measure]_vars

\* C3 witness: A : C, B : A, C : B, and resolve(A) has returned a class.
C3_Witness ==
    /\ Returned /\ target = "A" /\ result.ok
    /\ class_map["A"].parent = Some("C")
    /\ class_map["C"].parent = Some("B")
    /\ class_map["B"].parent = Some("A")
    /\ "pA" \in DOMAIN result.value.properties

\* C4 (as claimed): resolving a member of a cycle never fails with a circular
\* inheritance error and the result holds the own properties of every class of the
\* cycle.
C4_CycleMemberGetsWholeCycle ==
    (Returned /\ target \in DOMAIN class_map /\ OnCycle(class_map, target)) =>
        /\ result.ok
        /\ \A c \in Range(ParentChain(class_map, target, {})) :
              DOMAIN class_map[c].properties \subseteq DOMAIN result.value.properties

\* C5: when the requested class, or a class reached from it by parent links, is not
\* registered, the call returns the not-found error naming that class, never a
\* ClassNode; resolve-all fails the same way when any registered class has such a
\* chain.
C5_MissingClassIsAnError ==
    /\ (Returned /\ ReachesMissing(class_map, target)) =>
          IsNotFoundFor(result, Last(ParentChain(class_map, target, {})))
    /\ (ReturnedAll /\ \E c \in DOMAIN class_map : ReachesMissing(class_map, c)) =>
          \E c \in DOMAIN class_map :
             /\ ReachesMissing(class_map, c)
             /\ IsNotFoundFor(result, Last(ParentChain(class_map, c, {})))

\* C5 witness: C : B, B : M with M unregistered; A was resolved before; resolve(C)
\* returned the error naming M.
C5_Witness ==
    /\ Returned /\ target = "C" /\ ~fresh
    /\ class_map["C"].parent = Some("B")
    /\ class_map["B"].parent = Some(Missing)
    /\ "A" \in processed
    /\ result = Err(NotFoundMsg(Missing))

\* The value the specification gives a shadowing child property.
ExpectedShadow(child_prop, parent_prop) ==
    IF /\ child_prop.value_type = "Array"
       /\ parent_prop.value_type = "Array"
       /\ child_prop.operation # None
    THEN [child_prop EXCEPT !.array_values =
            ArrayProcessor_process(parent_prop.array_values, child_prop.array_values,
                                   child_prop.operation[1])]
    ELSE child_prop

\* A resolved parent is about to be merged into the class on top of the recursion.
AtMerge == pc = "ret" /\ frames # <<>> /\ ret.ok

\* C6: whenever a resolved parent is merged into a class, each property both
\* declare comes out as combine(parent's array_values, child's array_values, op)
\* when both are arrays and the child carries op, and as the child's property
\* unchanged otherwise; on a fresh resolver this composes level by level down an
\* acyclic chain.
C6_ArrayMergeLevelByLevel ==
    /\ AtMerge =>
          \A merged \in MergeResults(impl, Top.result, ret.value) :
             \A n \in DOMAIN Top.result.properties \cap DOMAIN ret.value.properties :
                merged.properties[n] =
                    ExpectedShadow(class_map[Top.class_name].properties[n],
                                   ret.value.properties[n])
    /\ (Returned /\ fresh /\ AcyclicRegistered(class_map, target)) =>
          /\ result.ok
          /\ result.value.properties =
                ExpectedProperties(class_map, ParentChain(class_map, target, {}))

\* C6 witness: Base [a,b,c], Middle += [d,e], Child -= [b,c] resolves Child to
\* [a,d,e].
C6_Witness ==
    /\ Returned /\ fresh /\ target = "C" /\ result.ok
    /\ class_map["A"].parent = None
    /\ class_map["B"].parent = Some("A")
    /\ class_map["C"].parent = Some("B")
    /\ \A c \in Names : "x" \in DOMAIN class_map[c].properties
    /\ class_map["A"].properties["x"] = ArrayProperty("x", <<"a", "b", "c">>, None)
    /\ class_map["B"].properties["x"] = ArrayProperty("x", <<"d", "e">>, Some("Append"))
    /\ class_map["C"].properties["x"] = ArrayProperty("x", <<"b", "c">>, Some("Remove"))
    /\ result.value.properties["x"].array_values = <<"a", "d", "e">>

NamesOf(list) == [i \in 1..Len(list) |-> list[i].name]

Distinct(s) == Cardinality(Range(s)) = Len(s)

\* C7 (as claimed): after a merge the child's nested classes are its own, in
\* declared order, followed by the parent's nested classes it does not declare, in
\* the parent's declared order.  Stated for the plain case only, where neither list
\* declares a name twice.
C7_NestedOrderKept ==
    AtMerge =>
        \A merged \in MergeResults(impl, Top.result, ret.value) :
            LET own == NamesOf(Top.result.nested_classes)
                theirs == NamesOf(ret.value.nested_classes)
            IN  (Distinct(own) /\ Distinct(theirs)) =>
                    NamesOf(merged.nested_classes) =
                        own \o SelectSeq(theirs, LAMBDA n : n \notin Range(own))

\* C8: no step of a resolve call, successful or failed, changes class_map.
C8_RegistryUntouched == [][class_map' = class_map]_vars

\* C8 witness: a call returned a merged class that differs from the registered one.
C8_Witness ==
    /\ Returned /\ result.ok
    /\ target \in processed
    /\ result.value # class_map[target]
    /\ result.value.nested_classes # class_map[target].nested_classes

ProcessedOp(op) == array_pc = "done" /\ operation = op

KeptPositions == {i \in 1..Len(base) : \A j \in 1..Len(values) : base[i] # values[j]}

\* r lists base at exactly the kept positions, in increasing position.
IsBaseAtKeptPositions(r) ==
    /\ Len(r) = Cardinality(KeptPositions)
    /\ \E f \in [1..Len(r) -> 1..Len(base)] :
          /\ \A k \in 1..Len(r) : f[k] \in KeptPositions /\ r[k] = base[f[k]]
          /\ \A k \in 1..(Len(r) - 1) : f[k] < f[k + 1]

C11_RemoveFiltersBase ==
    ProcessedOp("Remove") =>
        /\ IsBaseAtKeptPositions(array_result)
        /\ \A other \in SeqsUpTo(Items, MaxLen) :
              Range(other) = Range(values) =>
                  ArrayProcessor_process(base, other, "Remove") = array_result
        /\ ArrayProcessor_process(array_result, values, "Remove") = array_result

\* base = [a, b, a], values = [a, a]: a repeated on both sides, b kept.
C11_Witness ==
    /\ ProcessedOp("Remove")
    /\ Len(values) >= 2 /\ values[1] = values[2]
    /\ Count(base, values[1]) = 2
    /\ array_result # <<>>
    /\ array_result # base

(***************************************************************************)
(* Tokenizer (src/lexer/tokenizer.rs).  A char is a string of length one;  *)
(* the input is a sequence of chars; NoChar stands for peek() = None.      *)
(* The tokenizer state st is [pos, line, column]: pos is the index of the  *)
(* next char of the Peekable<Chars>, line and column are self.line and     *)
(* self.column.                                                            *)
(***************************************************************************)
NoChar == ""

\* The element of a one-element set.  Only({F(x) : x \in {e}}) is F(e) with e
\* evaluated once.
Only(S) == CHOOSE x \in S : TRUE

Digits == {"0", "1", "2", "3", "4", "5", "6", "7", "8", "9"}

DigitChars == <<"0", "1", "2", "3", "4", "5", "6", "7", "8", "9">>

Letters ==
    {"a", "b", "c", "d", "e", "f", "g", "h", "i", "j", "k", "l", "m",
     "n", "o", "p", "q", "r", "s", "t", "u", "v", "w", "x", "y", "z",
     "A", "B", "C", "D", "E", "F", "G", "H", "I", "J", "K", "L", "M",
     "N", "O", "P", "Q", "R", "S", "T", "U", "V", "W", "X", "Y", "Z"}

\* char::is_whitespace on the characters the inputs use.
Whitespace == {" ", "\t", "\n", "\r"}

\* Tokenizer::new: line 1, column 0, comments not preserved.
Tokenizer_new == [pos |-> 1, line |-> 1, column |-> 0]

Token_new(token_type, line, column) ==
    [token_type |-> token_type, line |-> line, column |-> column]

TokenType(tag) == [tag |-> tag]
TokenTypeOf(tag, value) == [tag |-> tag, value |-> value]

SourceLocation_unknown == [line |-> 0, column |-> 0]

LexerError(message, location) ==
    [kind |-> "LexerError", message |-> message, location |-> location]

\* Tokenizer::error: the message with the current self.line, self.column.
error(st, message) ==
    [ok |-> FALSE,
     error |-> LexerError(message, [line |-> st.line, column |-> st.column]),
     st |-> st]

TokOk(token, st) == [ok |-> TRUE, token |-> token, st |-> st]

peek(inp, st) == IF st.pos <= Len(inp) THEN inp[st.pos] ELSE NoChar

peek_next(inp, st) == IF st.pos + 1 <= Len(inp) THEN inp[st.pos + 1] ELSE NoChar

\* Mutant: columns are counted from 1 after a line break.
next_column_one(inp, st) ==
    IF st.pos > Len(inp) THEN st
    ELSE IF inp[st.pos] = "\n"
         THEN [pos |-> st.pos + 1, line |-> st.line + 1, column |-> 1]
         ELSE [pos |-> st.pos + 1, line |-> st.line, column |-> st.column + 1]

\* Tokenizer::next (and advance): consume one char, keeping line and column.
next(inp, st) ==
    IF st.pos > Len(inp) THEN st
    ELSE IF inp[st.pos] = "\n"
         THEN [pos |-> st.pos + 1, line |-> st.line + 1, column |-> 0]
         ELSE [pos |-> st.pos + 1, line |-> st.line, column |-> st.column + 1]

advance(inp, st) == next(inp, st)

\* advance() repeated until the position p is reached.
RECURSIVE advance_to(_, _, _)
advance_to(inp, st, p) ==
    IF st.pos >= p \/ st.pos > Len(inp) THEN st
    ELSE Only({advance_to(inp, st1, p) : st1 \in {advance(inp, st)}})

\* The first position from i on whose char is not in S (Len + 1 if none).
ScanWhile(inp, i, S) ==
    CHOOSE j \in i..(Len(inp) + 1) :
        /\ \A k \in i..(j - 1) : inp[k] \in S
        /\ j = Len(inp) + 1 \/ inp[j] \notin S

\* The first position from i on whose char is in S (Len + 1 if none).
ScanUntil(inp, i, S) ==
    CHOOSE j \in i..(Len(inp) + 1) :
        /\ \A k \in i..(j - 1) : inp[k] \notin S
        /\ j = Len(inp) + 1 \/ inp[j] \in S

match_char(inp, st, expected) ==
    IF peek(inp, st) = expected
    THEN [matched |-> TRUE, st |-> advance(inp, st)]
    ELSE [matched |-> FALSE, st |-> st]

skip_whitespace(inp, st) == advance_to(inp, st, ScanWhile(inp, st.pos, Whitespace))

(***************************************************************************)
(* str::parse::<f64>.  The accepted texts are those of the grammar         *)
(*   Sign? ( Digit+ | Digit+ '.' Digit* | Digit* '.' Digit+ ) Exp?         *)
(*   Exp ::= ('e' | 'E') Sign? Digit+                                      *)
(* (the spellings inf, infinity and nan never reach parse: the tokenizer   *)
(* passes only texts over digits, '.', 'e', 'E', '+' and '-').  The value  *)
(* is kept as the decimal mant * 10^exp with mant not divisible by 10.     *)
(***************************************************************************)
DigitVal(c) == CHOOSE d \in 0..9 : DigitChars[d + 1] = c

RECURSIVE DigitsToNat(_)
DigitsToNat(s) ==
    IF s = <<>> THEN 0
    ELSE Only({10 * DigitsToNat(front) + DigitVal(s[Len(s)]) :
                  front \in {SubSeq(s, 1, Len(s) - 1)}})

RECURSIVE Normalise(_, _)
Normalise(mant, exp) ==
    IF mant = 0 THEN [mant |-> 0, exp |-> 0]
    ELSE IF mant % 10 = 0
    THEN Only({Normalise(m, e) : m \in {mant \div 10}, e \in {exp + 1}})
    ELSE [mant |-> mant, exp |-> exp]

StripSign(t) == IF t # <<>> /\ t[1] \in {"+", "-"} THEN Tail(t) ELSE t

IsNegative(t) == t # <<>> /\ t[1] = "-"

AllDigits(t) == \A i \in 1..Len(t) : t[i] \in Digits

\* The value of the parts of a decimal text, if they are well formed.
decimal_value(negative, int_part, frac_part, has_exp, exp_negative, exp_digits) ==
    IF /\ AllDigits(int_part) /\ AllDigits(frac_part)
       /\ Len(int_part) + Len(frac_part) >= 1
       /\ has_exp => AllDigits(exp_digits) /\ Len(exp_digits) >= 1
       /\ ~has_exp => exp_digits = <<>>
    THEN [ok |-> TRUE,
          value |-> Normalise(IF negative THEN 0 - DigitsToNat(int_part \o frac_part)
                              ELSE DigitsToNat(int_part \o frac_part),
                              (IF ~has_exp THEN 0
                               ELSE IF exp_negative THEN 0 - DigitsToNat(exp_digits)
                               ELSE DigitsToNat(exp_digits)) - Len(frac_part))]
    ELSE [ok |-> FALSE]

\* The mantissa text split at its first '.', the exponent text without its sign.
parse_decimal(mantissa, has_exp, exponent) ==
    Only({decimal_value(IsNegative(mantissa),
                        SubSeq(m, 1, dot - 1), SubSeq(m, dot + 1, Len(m)),
                        has_exp, IsNegative(exponent), StripSign(exponent)) :
             m \in {StripSign(mantissa)},
             dot \in {ScanUntil(StripSign(mantissa), 1, {"."})}})

\* The text split at its first 'e' or 'E'.
parse_f64(s) ==
    Only({parse_decimal(SubSeq(s, 1, e - 1), e <= Len(s), SubSeq(s, e + 1, Len(s))) :
             e \in {ScanUntil(s, 1, {"e", "E"})}})

RECURSIVE Pow10(_)
Pow10(n) == IF n <= 0 THEN 1 ELSE Only({10 * Pow10(m) : m \in {n - 1}})

\* n.fract() == 0.0
IsWhole(v) == v.exp >= 0

\* lo <= n && n <= hi for whole numbers lo <= hi.
InRange(v, lo, hi) ==
    IF v.exp >= 0
    THEN lo <= v.mant * Pow10(v.exp) /\ v.mant * Pow10(v.exp) <= hi
    ELSE lo * Pow10(0 - v.exp) <= v.mant /\ v.mant <= hi * Pow10(0 - v.exp)

(***************************************************************************)
(* The readers.  Each returns TokOk(token, st) or error(st, message).      *)
(***************************************************************************)
\* Tokenizer::read_number, the main loop: the text read and where it ends.
\* (Its arm for digits after 'e' and the inner "Expected '+', '-' or digit"
\* return cannot be reached: digits are taken by the first arm, and the char
\* after 'e' was checked by peek_next.)
RECURSIVE read_number_loop(_, _, _, _, _)
read_number_loop(inp, st, number, has_dot, has_e) ==
    LET c == peek(inp, st)
        sign == peek_next(inp, st)
    IN  IF c \in Digits
        THEN Only({read_number_loop(inp, st1, number1, has_dot, has_e) :
                      st1 \in {advance(inp, st)}, number1 \in {Append(number, c)}})
        ELSE IF c = "." /\ ~has_dot /\ ~has_e
        THEN Only({IF peek(inp, st1) \notin Digits
                   THEN error(st1, <<"Expected digit after decimal point">>)
                   ELSE read_number_loop(inp, st1, number1, TRUE, has_e) :
                      st1 \in {advance(inp, st)}, number1 \in {Append(number, c)}})
        ELSE IF c \in {"e", "E"} /\ ~has_e
        THEN IF sign \in {"-", "+"} \cup Digits
             THEN Only({IF peek(inp, st2) \notin Digits
                        THEN error(st2, <<"Expected digit in scientific notation exponent">>)
                        ELSE read_number_loop(inp, st2, number2, has_dot, TRUE) :
                           st2 \in {IF sign \in {"+", "-"}
                                    THEN advance(inp, advance(inp, st))
                                    ELSE advance(inp, st)},
                           number2 \in {IF sign = "-" THEN number \o <<"e", "-">>
                                        ELSE Append(number, "e")}})
             ELSE error(st, <<"Invalid scientific notation format: expected digit, '+', or '-' after 'e'">>)
        ELSE [ok |-> TRUE, number |-> number, st |-> st]

\* The end of read_number: number.parse::<f64>().
number_token(number, start, st) ==
    Only({IF n.ok
          THEN TokOk(Token_new(TokenTypeOf("NumberLiteral", n.value),
                               start.line, start.column), st)
          ELSE error(st, <<"Invalid number format: ", number>>) :
             n \in {parse_f64(number)}})

read_number(inp, st) ==
    Only({IF minus /\ peek(inp, st1) \notin Digits
          THEN error(st1, <<"Expected digit after '-'">>)
          ELSE Only({IF r.ok THEN number_token(r.number, st, r.st) ELSE r :
                        r \in {read_number_loop(inp, st1,
                                   IF minus THEN <<"-">> ELSE <<>>, FALSE, FALSE)}}) :
             minus \in {peek(inp, st) = "-"},
             st1 \in {IF peek(inp, st) = "-" THEN advance(inp, st) ELSE st}})

IdentifierChars == Letters \cup Digits \cup {"_", "\\", ".", "-"}

\* The closure of read_identifier that decides whether the text is a number.
is_pure_number(ident) ==
    \A i \in 0..(Len(ident) - 1) :
        \/ ident[i + 1] \in Digits
        \/ ident[i + 1] = "."
        \/ /\ i > 0
           /\ \/ ident[i + 1] \in {"e", "E"}
              \/ i > 1 /\ ident[i + 1] \in {"-", "+"} /\ ident[i] \in {"e", "E"}

Keywords ==
    [tag : {"Class"}, text : {<<"c", "l", "a", "s", "s">>}] \cup
    [tag : {"Enum"}, text : {<<"e", "n", "u", "m">>}] \cup
    [tag : {"Public"}, text : {<<"p", "u", "b", "l", "i", "c">>}] \cup
    [tag : {"Private"}, text : {<<"p", "r", "i", "v", "a", "t", "e">>}] \cup
    [tag : {"Include"}, text : {<<"i", "n", "c", "l", "u", "d", "e">>}] \cup
    [tag : {"Define"}, text : {<<"d", "e", "f", "i", "n", "e">>}]

\* The token type read_identifier gives the text it read.
identifier_type(ident) ==
    Only({IF is_pure_number(ident) /\ n.ok
          THEN TokenTypeOf("NumberLiteral", n.value)
          ELSE IF \E k \in Keywords : k.text = ident
          THEN TokenType((CHOOSE k \in Keywords : k.text = ident).tag)
          ELSE IF ident = <<"t", "r", "u", "e">>
          THEN TokenTypeOf("BooleanLiteral", TRUE)
          ELSE IF ident = <<"f", "a", "l", "s", "e">>
          THEN TokenTypeOf("BooleanLiteral", FALSE)
          ELSE TokenTypeOf("Identifier", ident) :
             n \in {parse_f64(ident)}})

\* Tokenizer::read_identifier: it cannot fail.
read_identifier(inp, st) ==
    Only({TokOk(Token_new(identifier_type(SubSeq(inp, st.pos, stop - 1)),
                          st.line, st.column),
                advance_to(inp, st, stop)) :
             stop \in {ScanWhile(inp, st.pos, IdentifierChars)}})

\* The look-ahead on a leading digit: a letter, '_' or '\' before anything
\* that cannot be part of a number.
is_part_of_identifier(inp, st) ==
    \E stop \in {ScanUntil(inp, st.pos + 1,
                     {c \in Range(inp) : c \notin Digits \cup {".", "e", "E", "+", "-"}}
                     \cup Letters \cup {"_", "\\"})} :
        stop <= Len(inp) /\ inp[stop] \in Letters \cup {"_", "\\"}

\* The opening quote is at st.pos; stop is the closing quote, if there is one.
read_string(inp, st) ==
    Only({IF stop <= Len(inp)
          THEN TokOk(Token_new(TokenTypeOf("StringLiteral",
                                           SubSeq(inp, st.pos + 1, stop - 1)),
                               st.line, st.column),
                     advance_to(inp, st, stop + 1))
          ELSE error(advance_to(inp, st, stop), <<"Unterminated string literal">>) :
             stop \in {ScanUntil(inp, st.pos + 1, {"\""})}})

single_char_token(inp, st, token_type) ==
    TokOk(Token_new(token_type, st.line, st.column), advance(inp, st))

handle_equals(inp, st) ==
    TokOk(Token_new(TokenType("Equals"), st.line, st.column), advance(inp, st))

handle_plus(inp, st) ==
    Only({IF m.matched
          THEN TokOk(Token_new(TokenType("PlusEquals"), st.line, st.column), m.st)
          ELSE error(m.st, <<"Expected '=' after '+'">>) :
             m \in {match_char(inp, advance(inp, st), "=")}})

\* Reached only when no digit follows the '-': the branch that steps the
\* column back and calls read_number is never taken.
handle_minus(inp, st) ==
    Only({IF peek(inp, st1) \in Digits
          THEN read_number(inp, [st1 EXCEPT !.column = st1.column - 1])
          ELSE IF peek(inp, st1) = "="
          THEN TokOk(Token_new(TokenType("MinusEquals"), st.line, st.column),
                     advance(inp, st1))
          ELSE error(st1, <<"Expected '=' after '-' or digit for negative number">>) :
             st1 \in {advance(inp, st)}})

read_preprocessor_directive(inp, st) ==
    Only({IF r.token.token_type.tag \in {"Include", "Define"}
          THEN TokOk(Token_new(TokenType(r.token.token_type.tag), st.line, st.column),
                     r.st)
          ELSE error(r.st, <<"Unknown preprocessor directive">>) :
             r \in {read_identifier(inp, advance(inp, st))}})

(***************************************************************************)
(* read_argb_color: "#(argb,W,H,C)color(r,g,b,a)".                         *)
(***************************************************************************)
\* ToNumber::to_u8 on the token read_number returned; its error carries
\* SourceLocation::unknown().
to_u8(r) ==
    IF IsWhole(r.token.token_type.value) /\ InRange(r.token.token_type.value, 0, 255)
    THEN [ok |-> TRUE, value |-> r.token.token_type.value, st |-> r.st]
    ELSE [ok |-> FALSE,
          error |-> LexerError(<<"Invalid u8 value: ", r.token.token_type.value>>,
                               SourceLocation_unknown),
          st |-> r.st]

\* self.skip_whitespace(); self.read_number()?.to_u8()?
read_u8(inp, st) ==
    Only({IF r.ok THEN to_u8(r) ELSE r :
             r \in {read_number(inp, skip_whitespace(inp, st))}})

\* self.skip_whitespace(); self.read_number()?.to_f64()?; the range check.
read_color_value(inp, st) ==
    Only({IF ~r.ok THEN r
          ELSE IF ~InRange(r.token.token_type.value, 0, 1)
          THEN error(r.st, <<"Color values must be between 0 and 1">>)
          ELSE [ok |-> TRUE, value |-> r.token.token_type.value, st |-> r.st] :
             r \in {read_number(inp, skip_whitespace(inp, st))}})

match_char_str(inp, st, s) ==
    IF st.pos + Len(s) - 1 <= Len(inp) /\ SubSeq(inp, st.pos, st.pos + Len(s) - 1) = s
    THEN [matched |-> TRUE, st |-> advance_to(inp, st, st.pos + Len(s))]
    ELSE [matched |-> FALSE, st |-> st]

\* The steps of read_argb_color after the "argb" identifier, in order.
ColorSteps ==
    << [op |-> "char", c |-> ",", message |-> <<"Expected ',' after 'argb'">>],
       [op |-> "u8"],
       [op |-> "char", c |-> ",", message |-> <<"Expected ',' after size_x">>],
       [op |-> "u8"],
       [op |-> "char", c |-> ",", message |-> <<"Expected ',' after size_y">>],
       [op |-> "u8"],
       [op |-> "char", c |-> ")", message |-> <<"Expected ')' after channels">>],
       [op |-> "color("],
       [op |-> "value"],
       [op |-> "char", c |-> ",", message |-> <<"Expected ',' after red value">>],
       [op |-> "value"],
       [op |-> "char", c |-> ",", message |-> <<"Expected ',' after green value">>],
       [op |-> "value"],
       [op |-> "char", c |-> ",", message |-> <<"Expected ',' after blue value">>],
       [op |-> "value"],
       [op |-> "char", c |-> ")", message |-> <<"Expected ')' after alpha value">>] >>

\* One step: [ok, st, value] (value <<>> when the step reads no component).
color_step(inp, st, step) ==
    IF step.op = "char"
    THEN IF peek(inp, st) = step.c
         THEN [ok |-> TRUE, value |-> None, st |-> advance(inp, st)]
         ELSE error(st, step.message)
    ELSE IF step.op = "color("
    THEN Only({IF m.matched THEN [ok |-> TRUE, value |-> None, st |-> m.st]
               ELSE error(m.st, <<"Expected 'color(' after ARGB format">>) :
                  m \in {match_char_str(inp, skip_whitespace(inp, st),
                                        <<"c", "o", "l", "o", "r", "(">>)}})
    ELSE IF step.op = "u8"
    THEN Only({IF r.ok THEN [ok |-> TRUE, value |-> Some(r.value), st |-> r.st] ELSE r :
                  r \in {read_u8(inp, st)}})
    ELSE Only({IF r.ok THEN [ok |-> TRUE, value |-> Some(r.value), st |-> r.st] ELSE r :
                  r \in {read_color_value(inp, st)}})

RECURSIVE read_argb_steps(_, _, _, _, _)
read_argb_steps(inp, st, k, components, start) ==
    IF k > Len(ColorSteps)
    THEN TokOk(Token_new(TokenTypeOf("ARGBColor", components), start.line, start.column), st)
    ELSE Only({IF r.ok
               THEN read_argb_steps(inp, r.st, k + 1, components \o r.value, start)
               ELSE r :
                  r \in {color_step(inp, st, ColorSteps[k])}})

read_argb_color(inp, st) ==
    Only({IF ~m.matched
          THEN error(m.st, <<"Expected '(' after '#' in ARGB color">>)
          ELSE Only({IF \/ format.token.token_type.tag # "Identifier"
                        \/ format.token.token_type.value # <<"a", "r", "g", "b">>
                     THEN error(format.st, <<"Expected 'argb' in color format">>)
                     ELSE read_argb_steps(inp, format.st, 1, <<>>, st) :
                        format \in {read_identifier(inp, m.st)}}) :
             m \in {match_char(inp, advance(inp, st), "(")}})

(***************************************************************************)
(* Comments and next_token.                                                *)
(***************************************************************************)
\* One turn of the loop of read_block_comment; c is the char at st.  On a
\* line break the loop calls advance(), which counts the line, and then adds
\* one to self.line itself.
block_comment_step(inp, st, c, comment, depth) ==
    IF c = "*" /\ peek_next(inp, st) = "/"
    THEN [st |-> advance(inp, advance(inp, st)), comment |-> comment,
          depth |-> depth - 1]
    ELSE IF c = "/" /\ peek_next(inp, st) = "*"
    THEN [st |-> advance(inp, advance(inp, st)), comment |-> comment \o <<"/", "*">>,
          depth |-> depth + 1]
    ELSE IF c = "\n"
    THEN [st |-> [advance(inp, st) EXCEPT !.line = @ + 1, !.column = 0],
          comment |-> Append(comment, c), depth |-> depth]
    ELSE [st |-> advance(inp, st), comment |-> Append(comment, c), depth |-> depth]

RECURSIVE read_block_comment_loop(_, _, _, _)
read_block_comment_loop(inp, st, comment, depth) ==
    IF depth = 0 THEN [ok |-> TRUE, comment |-> comment, st |-> st]
    ELSE IF peek(inp, st) = NoChar
    THEN error(st, <<"Unterminated block comment">>)
    ELSE Only({read_block_comment_loop(inp, s.st, s.comment, s.depth) :
                  s \in {block_comment_step(inp, st, peek(inp, st), comment, depth)}})

\* The tail shared by both comment readers: the comment as a token when
\* comments are preserved, else the result of self.next_token() (following),
\* which must be a token.
comment_or_next(st, comment, start, preserve, following) ==
    IF preserve
    THEN TokOk(Token_new(TokenTypeOf("Comment", comment), start.line, start.column), st)
    ELSE IF ~following.ok THEN following
    ELSE IF following.token = None
    THEN error(following.st, <<"Unexpected end of input after comment">>)
    ELSE TokOk(following.token[1], following.st)

RECURSIVE next_token(_, _, _)

\* The comment runs from st.pos + 2 up to the line break (or the end), where
\* st2 stands.
read_line_comment(inp, st, preserve) ==
    Only({Only({comment_or_next(st2, SubSeq(inp, st.pos + 2, st2.pos - 1), st,
                                preserve, following) :
                   following \in {IF preserve THEN NoResult
                                  ELSE next_token(inp, st2, preserve)}}) :
             st2 \in {advance_to(inp, st, ScanUntil(inp, st.pos + 2, {"\n"}))}})

read_block_comment(inp, st, preserve) ==
    Only({IF ~r.ok THEN r
          ELSE Only({comment_or_next(r.st, r.comment, st, preserve, following) :
                        following \in {IF preserve THEN NoResult
                                       ELSE next_token(inp, r.st, preserve)}}) :
             r \in {read_block_comment_loop(inp, advance(inp, advance(inp, st)),
                                            <<>>, 1)}})

SingleCharTokens ==
    [c : {"{"}, tag : {"LeftBrace"}] \cup [c : {"}"}, tag : {"RightBrace"}] \cup
    [c : {"]"}, tag : {"RightBracket"}] \cup [c : {";"}, tag : {"Semicolon"}] \cup
    [c : {":"}, tag : {"Colon"}] \cup [c : {","}, tag : {"Comma"}]

\* '[' followed by ']' is the array marker.
left_bracket(inp, st) ==
    Only({TokOk(Token_new(TokenType(IF m.matched THEN "ArrayMarker" ELSE "LeftBracket"),
                          m.st.line, st.column), m.st) :
             m \in {match_char(inp, advance(inp, st), "]")}})

\* The match on the first char c of next_token; n is the char after it.
read_token(inp, st, c, n, preserve) ==
    IF \E t \in SingleCharTokens : t.c = c
    THEN single_char_token(inp, st,
             TokenType((CHOOSE t \in SingleCharTokens : t.c = c).tag))
    ELSE IF c = "[" THEN left_bracket(inp, st)
    ELSE IF c = "=" THEN handle_equals(inp, st)
    ELSE IF c = "+" THEN handle_plus(inp, st)
    ELSE IF c = "-" /\ n \in Digits THEN read_number(inp, st)
    ELSE IF c = "-" THEN handle_minus(inp, st)
    ELSE IF c = "\"" THEN read_string(inp, st)
    ELSE IF c = "/" /\ n = "/" THEN read_line_comment(inp, st, preserve)
    ELSE IF c = "/" /\ n = "*" THEN read_block_comment(inp, st, preserve)
    ELSE IF c = "/" THEN error(st, <<"Unexpected '/' character">>)
    ELSE IF c = "#" /\ n = "(" THEN read_argb_color(inp, st)
    ELSE IF c = "#" THEN read_preprocessor_directive(inp, st)
    ELSE IF c \in Digits /\ ~is_part_of_identifier(inp, st) THEN read_number(inp, st)
    ELSE IF c \in Letters \cup Digits \cup {"_", "\\"} THEN read_identifier(inp, st)
    ELSE error(st, <<"Unexpected character: ", c>>)

\* Tokenizer::next_token: Ok(None) at the end of the input, else one token
\* or the error of the reader the first char selects.
next_token(inp, st0, preserve) ==
    Only({IF peek(inp, st) = NoChar THEN [ok |-> TRUE, token |-> None, st |-> st]
          ELSE Only({IF r.ok THEN [ok |-> TRUE, token |-> Some(r.token), st |-> r.st]
                     ELSE r :
                        r \in {read_token(inp, st, peek(inp, st), peek_next(inp, st),
                                          preserve)}}) :
             st \in {skip_whitespace(inp, st0)}})

(***************************************************************************)
(* Tokenizer::tokenize: one action per turn of its while-let loop.         *)
(***************************************************************************)
\* next_token returned Some(token): push it.
TokenizePush ==
    /\ tok_pc = "scan"
    /\ \E r \in {next_token(input, tz, preserve_comments)} :
           /\ r.ok
           /\ r.token # None
           /\ tokens' = Append(tokens, r.token[1])
           /\ tz' = r.st
    /\ UNCHANGED <<input, preserve_comments, tok_result, tok_pc>>

\* next_token returned None: Ok(tokens).
TokenizeEnd ==
    /\ tok_pc = "scan"
    /\ \E r \in {next_token(input, tz, preserve_comments)} :
           /\ r.ok
           /\ r.token = None
           /\ tz' = r.st
    /\ tok_result' = Ok(tokens)
    /\ tok_pc' = "done"
    /\ UNCHANGED <<input, preserve_comments, tokens>>

\* next_token returned Err: the ? operator returns it from tokenize.
TokenizeFail ==
    /\ tok_pc = "scan"
    /\ \E r \in {next_token(input, tz, preserve_comments)} :
           /\ ~r.ok
           /\ tz' = r.st
           /\ tok_result' = Err(r.error)
    /\ tok_pc' = "done"
    /\ UNCHANGED <<input, preserve_comments, tokens>>

(***************************************************************************)
(* The inputs of the tokenizer specification: up to MaxPieces lexemes      *)
(* written one after the other.                                            *)
(***************************************************************************)
\* The malformed numbers of test_scientific_notation.
MalformedNumbers ==
    {<<"1", "e">>,
     <<"1", "e", "-">>,
     <<"1", ".", "2", "e">>,
     <<"e", "5">>,
     <<"1", ".", "2", ".", "3", "e", "5">>,
     <<"1", "e", "2", ".", "5">>}

\* Numbers the tokenizer accepts, and a negative one with a dangling exponent.
WellFormedNumbers ==
    {<<"1", "e", "5">>,
     <<"-", "1", "e", "-", "5">>,
     <<"1", ".", "5">>,
     <<"1", "2">>,
     <<"-", "1", "e">>}

\* An identifier, a keyword and punctuation (once with a line break after it).
Words ==
    {<<"x">>,
     <<"c", "l", "a", "s", "s">>,
     <<";">>,
     <<"=">>,
     <<"+", "=">>,
     <<"[", "]">>,
     <<";", "\n">>}

\* White space.
Blanks ==
    {<<" ">>,
     <<"\n">>}

\* Line and block comments, one of them spanning two lines, one unterminated.
Comments ==
    {<<"/", "/", " ", "c">>,
     <<"/", "*", " ", "c", " ", "*", "/">>,
     <<"/", "*", "\n", "*", "/">>,
     <<"/", "*", " ", "c">>}

\* A string, an unterminated string, a directive, colours and stray characters.
Others ==
    {<<"\"", "s", "\"">>,
     <<"\"", "s">>,
     <<"#", "i", "n", "c", "l", "u", "d", "e">>,
     <<"#", "(", "a", "r", "g", "b", ",", "8", ",", "8", ",", "3", ")", "c", "o", "l", "o", "r", "(", "1", ",", "0", ".", "5", ",", "0", ",", "1", ")">>,
     <<"#", "(", "a", "r", "g", "b", ",", "3", "0", "0", ",", "8", ",", "3", ")", "c", "o", "l", "o", "r", "(", "1", ",", "1", ",", "1", ",", "1", ")">>,
     <<"@">>,
     <<"/">>}

Lexemes == MalformedNumbers \cup WellFormedNumbers \cup Words \cup Blanks
           \cup Comments \cup Others

RECURSIVE Concat(_)
Concat(pieces) ==
    IF pieces = <<>> THEN <<>> ELSE Head(pieces) \o Concat(Tail(pieces))

Inputs == {Concat(pieces) : pieces \in SeqsUpTo(Lexemes, MaxPieces)}

\* Tokenizer::new(input).with_comments(preserve), about to tokenize.
InitTok ==
    /\ IdleScan
    /\ input \in Inputs
    /\ preserve_comments \in BOOLEAN
    /\ tz = Tokenizer_new
    /\ tokens = <<>>
    /\ tok_result = NoResult
    /\ tok_pc = "scan"
    /\ IdleArr
    /\ IdleInh
    /\ IdlePar
    /\ IdlePre

NextTok ==
    \/ (TokenizePush /\ UNCHANGED outside_tok)
    \/ (TokenizeEnd /\ UNCHANGED outside_tok)
    \/ (TokenizeFail /\ UNCHANGED outside_tok)

SpecTok == InitTok /\ [][NextTok]_vars

(***************************************************************************)
(* Claims about the tokenizer (SpecTok).                                   *)
(***************************************************************************)
TokenizeReturned == tok_pc = "done"

IsLexerError(r) == ~r.ok /\ r.error.kind = "LexerError"

\* C12: tokenize returns a LexerError, and no token sequence, for every
\* malformed number: 1.2.3e5, 1e, 1e-, 1.2e, 1e2.5 and e5.
C12_MalformedNumberIsError ==
    (TokenizeReturned /\ input \in MalformedNumbers) => IsLexerError(tok_result)

FirstInk == ScanWhile(input, 1, Whitespace)

\* The line breaks before position p, and the chars between the last of them
\* and p.
LineBreaksBefore(p) == Cardinality({i \in 1..(p - 1) : input[i] = "\n"})
CharsBeforeOnLine(p) ==
    Cardinality({i \in 1..(p - 1) : \A j \in i..(p - 1) : input[j] # "\n"})

\* The first token starts at the first char that is not white space (no
\* comment was skipped before it).
FirstTokenAtFirstInk ==
    /\ tokens # <<>>
    /\ preserve_comments \/ input[FirstInk] # "/"

RECURSIVE tokenize_from(_, _, _, _)
tokenize_from(inp, st, preserve, acc) ==
    Only({IF ~r.ok THEN Err(r.error)
          ELSE IF r.token = None THEN Ok(acc)
          ELSE tokenize_from(inp, r.st, preserve, Append(acc, r.token[1])) :
             r \in {next_token(inp, st, preserve)}})

tokenize(inp, preserve) == tokenize_from(inp, Tokenizer_new, preserve, <<>>)

\* Where the block comment opened at position i ends: the result of the
\* block comment loop started behind its "/*".
BlockCommentFrom(inp, i) ==
    read_block_comment_loop(inp, [pos |-> i + 2, line |-> 1, column |-> 0], <<>>, 1)

\* The text from position i on with every comment outside a string literal
\* replaced by one space; terminated is FALSE if a block comment never ends.
RECURSIVE StripComments(_, _, _)
StripComments(inp, i, acc) ==
    IF i > Len(inp) THEN [text |-> acc, terminated |-> TRUE, any |-> FALSE]
    ELSE IF inp[i] = "\""
    THEN Only({StripComments(inp, close + 1,
                             acc \o SubSeq(inp, i, IF close > Len(inp) THEN Len(inp)
                                                   ELSE close)) :
                  close \in {ScanUntil(inp, i + 1, {"\""})}})
    ELSE IF inp[i] = "/" /\ i < Len(inp) /\ inp[i + 1] = "/"
    THEN Only({[r EXCEPT !.any = TRUE] :
                  r \in {StripComments(inp, ScanUntil(inp, i, {"\n"}),
                                       Append(acc, " "))}})
    ELSE IF inp[i] = "/" /\ i < Len(inp) /\ inp[i + 1] = "*"
    THEN Only({IF ~c.ok THEN [text |-> acc, terminated |-> FALSE, any |-> TRUE]
               ELSE [StripComments(inp, c.st.pos, Append(acc, " ")) EXCEPT !.any = TRUE] :
                  c \in {BlockCommentFrom(inp, i)}})
    ELSE Only({StripComments(inp, i + 1, acc1) : acc1 \in {Append(acc, inp[i])}})

TokenTypes(toks) == [i \in 1..Len(toks) |-> toks[i].token_type]

SameTokenTypes(a, b) ==
    /\ Len(a) = Len(b)
    /\ \A i \in 1..Len(a) :
           a[i].token_type.tag = b[i].token_type.tag /\ a[i].token_type = b[i].token_type

\* The outcome r is the outcome expected: both fail, or both give the same
\* token types in the same order.
SameOutcome(r, expected) ==
    /\ r.ok = expected.ok
    /\ r.ok => SameTokenTypes(r.value, expected.value)

C14_CommentsDiscarded ==
    (TokenizeReturned /\ ~preserve_comments) =>
        \A s \in {StripComments(input, 1, <<>>)} :
            (s.any /\ s.terminated) =>
                SameOutcome(tok_result, tokenize(s.text, FALSE))

(***************************************************************************)
(* Parser (src/parser/mod.rs).  The parser holds the tokens and the index  *)
(* `current` of the next one (0-based, as in the source); the pure         *)
(* operators below take them as toks and cur and return the new index.     *)
(* Names, strings and raw values are sequences of chars.                   *)
(***************************************************************************)
\* ParserConfig::default (src/parser/config.rs).  Parser::new takes no
\* configuration and parse_class reads none.
ParserConfig_default ==
    [max_depth |-> 32, allow_empty_blocks |-> FALSE, case_sensitive |-> TRUE]

ParseError(message, location) ==
    [kind |-> "ParseError", message |-> message, location |-> location]

ParseErr(message, location, cur) ==
    [ok |-> FALSE, error |-> ParseError(message, location), cur |-> cur]

Parser_is_at_end(toks, cur) == cur >= Len(toks)

\* Mutant: advance leaves the cursor where it is.
Parser_advance_stays(toks, cur) == cur

Parser_check(toks, cur, tag) ==
    ~Parser_is_at_end(toks, cur) /\ toks[cur + 1].token_type.tag = tag

Parser_advance(toks, cur) == IF Parser_is_at_end(toks, cur) THEN cur ELSE cur + 1

Parser_peek(toks, cur) ==
    IF Parser_is_at_end(toks, cur) THEN Token_new(TokenType("EOL"), 0, 0)
    ELSE toks[cur + 1]

\* Mutant: at the end of the input every expected token is taken as found.
expect_token_lenient(toks, cur, expected_type) ==
    IF Parser_is_at_end(toks, cur) \/ Parser_peek(toks, cur).token_type.tag = expected_type
    THEN [ok |-> TRUE, cur |-> Parser_advance(toks, cur)]
    ELSE ParseErr(<<"Expected token ", expected_type, ", found ",
                    Parser_peek(toks, cur).token_type>>,
                  [line |-> Parser_peek(toks, cur).line,
                   column |-> Parser_peek(toks, cur).column], cur)

Parser_consume(toks, cur) ==
    IF Parser_is_at_end(toks, cur)
    THEN ParseErr(<<"Unexpected end of input">>, SourceLocation_unknown, cur)
    ELSE [ok |-> TRUE, token |-> toks[cur + 1], cur |-> cur + 1]

expect_token(toks, cur, expected_type) ==
    IF Parser_peek(toks, cur).token_type.tag = expected_type
    THEN [ok |-> TRUE, cur |-> Parser_advance(toks, cur)]
    ELSE ParseErr(<<"Expected token ", expected_type, ", found ",
                    Parser_peek(toks, cur).token_type>>,
                  [line |-> Parser_peek(toks, cur).line,
                   column |-> Parser_peek(toks, cur).column], cur)

\* str::trim_matches('"'): every leading and every trailing quote is dropped.
trim_matches_quote(s) ==
    Only({IF first > Len(s) THEN <<>>
          ELSE SubSeq(s, first,
                      CHOOSE last \in first..Len(s) :
                          /\ s[last] # "\""
                          /\ \A k \in (last + 1)..Len(s) : s[k] = "\"") :
             first \in {ScanWhile(s, 1, {"\""})}})

RECURSIVE NatToDigits(_)
NatToDigits(n) ==
    IF n < 10 THEN <<DigitChars[n + 1]>>
    ELSE Only({Append(NatToDigits(q), DigitChars[(n % 10) + 1]) : q \in {n \div 10}})

Zeros(n) == [i \in 1..n |-> "0"]

\* f64::to_string of the decimal mant * 10^exp: plain decimal notation, no
\* exponent, no ".0" on a whole number.
f64_to_string(v) ==
    Only({(IF v.mant < 0 THEN <<"-">> ELSE <<>>) \o
          (IF v.exp >= 0 THEN digits \o Zeros(v.exp)
           ELSE IF Len(digits) > 0 - v.exp
           THEN SubSeq(digits, 1, Len(digits) + v.exp) \o <<".">> \o
                SubSeq(digits, Len(digits) + v.exp + 1, Len(digits))
           ELSE <<"0", ".">> \o Zeros((0 - v.exp) - Len(digits)) \o digits) :
             digits \in {NatToDigits(IF v.mant < 0 THEN 0 - v.mant ELSE v.mant)}})

bool_to_string(b) == IF b THEN <<"t", "r", "u", "e">> ELSE <<"f", "a", "l", "s", "e">>

PropertyNode(name, value_type, raw_value, op, array_values) ==
    [name |-> name, value_type |-> value_type, raw_value |-> raw_value,
     operation |-> op, array_values |-> array_values]

ValueOk(value_type, raw_value, array_values, cur) ==
    [ok |-> TRUE, value_type |-> value_type, raw_value |-> raw_value,
     array_values |-> array_values, cur |-> cur]

parse_single_value(toks, cur) ==
    Only({IF t.tag = "StringLiteral"
          THEN ValueOk("String", trim_matches_quote(t.value), <<>>, cur + 1)
          ELSE IF t.tag = "NumberLiteral"
          THEN ValueOk("Number", f64_to_string(t.value), <<>>, cur + 1)
          ELSE IF t.tag = "BooleanLiteral"
          THEN ValueOk("Boolean", bool_to_string(t.value), <<>>, cur + 1)
          ELSE IF t.tag = "Identifier"
          THEN ValueOk("String", t.value, <<>>, cur + 1)
          ELSE ParseErr(<<"Expected value">>, SourceLocation_unknown, cur) :
             t \in {Parser_peek(toks, cur).token_type}})

\* The match on the consumed token in the loop of parse_array_value.
array_element(t) ==
    IF t.tag = "StringLiteral" THEN [ok |-> TRUE, value |-> trim_matches_quote(t.value)]
    ELSE IF t.tag = "NumberLiteral" THEN [ok |-> TRUE, value |-> f64_to_string(t.value)]
    ELSE IF t.tag = "Identifier" THEN [ok |-> TRUE, value |-> t.value]
    ELSE [ok |-> FALSE]

\* values.join(",")
RECURSIVE join_comma(_)
join_comma(vals) ==
    IF vals = <<>> THEN <<>>
    ELSE IF Len(vals) = 1 THEN vals[1]
    ELSE Only({vals[1] \o <<",">> \o join_comma(rest) : rest \in {Tail(vals)}})

\* The while loop of parse_array_value, entered behind the opening brace.
RECURSIVE parse_array_loop(_, _, _)
parse_array_loop(toks, cur, vals) ==
    IF Parser_check(toks, cur, "RightBrace")
    THEN ValueOk("Array", <<"{">> \o join_comma(vals) \o <<"}">>, vals, cur + 1)
    ELSE IF Parser_is_at_end(toks, cur)
    THEN ParseErr(<<"Unexpected end of input">>, SourceLocation_unknown, cur)
    ELSE Only({IF ~e.ok
               THEN ParseErr(<<"Invalid array element">>, SourceLocation_unknown, cur + 1)
               ELSE IF Parser_check(toks, cur + 1, "RightBrace")
               THEN parse_array_loop(toks, cur + 1, Append(vals, e.value))
               ELSE Only({IF c.ok THEN parse_array_loop(toks, c.cur, Append(vals, e.value))
                          ELSE c :
                             c \in {expect_token(toks, cur + 1, "Comma")}}) :
                  e \in {array_element(toks[cur + 1].token_type)}})

parse_array_value(toks, cur) ==
    IF Parser_peek(toks, cur).token_type.tag = "LeftBrace"
    THEN parse_array_loop(toks, cur + 1, <<>>)
    ELSE ParseErr(<<"Expected array value">>, SourceLocation_unknown, cur)

\* parse_property behind the name: the operator, [is_array, operation, cur].
property_operator(toks, cur) ==
    IF Parser_check(toks, cur, "ArrayMarker")
    THEN IF Parser_check(toks, cur + 1, "PlusEquals")
         THEN [ok |-> TRUE, is_array |-> TRUE, operation |-> Some("Append"), cur |-> cur + 2]
         ELSE IF Parser_check(toks, cur + 1, "MinusEquals")
         THEN [ok |-> TRUE, is_array |-> TRUE, operation |-> Some("Remove"), cur |-> cur + 2]
         ELSE Only({IF e.ok
                    THEN [ok |-> TRUE, is_array |-> TRUE, operation |-> Some("Replace"),
                          cur |-> e.cur]
                    ELSE e : e \in {expect_token(toks, cur + 1, "Equals")}})
    ELSE Only({IF e.ok
               THEN [ok |-> TRUE, is_array |-> FALSE, operation |-> None, cur |-> e.cur]
               ELSE e : e \in {expect_token(toks, cur, "Equals")}})

\* parse_property behind the operator: the value and the closing semicolon.
property_value(toks, name, op) ==
    Only({IF ~v.ok THEN v
          ELSE Only({IF s.ok
                     THEN [ok |-> TRUE,
                           property |-> PropertyNode(name, v.value_type, v.raw_value,
                                                     op.operation, v.array_values),
                           cur |-> s.cur]
                     ELSE s : s \in {expect_token(toks, v.cur, "Semicolon")}}) :
             v \in {IF op.is_array THEN parse_array_value(toks, op.cur)
                    ELSE parse_single_value(toks, op.cur)}})

parse_property(toks, cur) ==
    Only({IF ~name_token.ok THEN name_token
          ELSE IF name_token.token.token_type.tag # "Identifier"
          THEN ParseErr(<<"Expected property name">>,
                        [line |-> name_token.token.line,
                         column |-> name_token.token.column], name_token.cur)
          ELSE Only({IF op.ok
                     THEN property_value(toks, name_token.token.token_type.value, op)
                     ELSE op : op \in {property_operator(toks, name_token.cur)}}) :
             name_token \in {Parser_consume(toks, cur)}})

\* One turn of the depth loop of skip_enum_block at the token t: [cur, depth].
enum_step(toks, cur, depth, t) ==
    IF t.tag = "LeftBrace" THEN [cur |-> cur + 1, depth |-> depth + 1]
    ELSE IF t.tag = "RightBrace"
    THEN [cur |-> IF depth - 1 = 0 /\ Parser_check(toks, cur + 1, "Semicolon")
                  THEN cur + 2 ELSE cur + 1,
          depth |-> depth - 1]
    ELSE IF t.tag = "Identifier" /\ depth = 1
    THEN Only({[cur |-> IF Parser_check(toks, c, "Comma") THEN c + 1 ELSE c,
                depth |-> depth] :
                  c \in {IF Parser_check(toks, cur + 1, "Equals")
                         THEN IF Parser_check(toks, cur + 2, "NumberLiteral")
                              THEN cur + 3 ELSE cur + 2
                         ELSE cur + 1}})
    ELSE [cur |-> cur + 1, depth |-> depth]

RECURSIVE skip_enum_loop(_, _, _)
skip_enum_loop(toks, cur, depth) ==
    IF depth > 0 /\ ~Parser_is_at_end(toks, cur)
    THEN Only({skip_enum_loop(toks, s.cur, s.depth) :
                  s \in {enum_step(toks, cur, depth, toks[cur + 1].token_type)}})
    ELSE IF depth > 0
    THEN ParseErr(<<"Unclosed enum block">>, SourceLocation_unknown, cur)
    ELSE [ok |-> TRUE, cur |-> cur]

\* The index of the first LeftBrace at or after cur (Len if there is none).
SkipToLeftBrace(toks, cur) ==
    CHOOSE j \in cur..Len(toks) :
        /\ \A k \in cur..(j - 1) : toks[k + 1].token_type.tag # "LeftBrace"
        /\ j = Len(toks) \/ toks[j + 1].token_type.tag = "LeftBrace"

skip_enum_block(toks, cur) ==
    Only({IF Parser_is_at_end(toks, brace)
          THEN ParseErr(<<"Unexpected end of file while skipping enum block">>,
                        SourceLocation_unknown, brace)
          ELSE skip_enum_loop(toks, brace + 1, 1) :
             brace \in {SkipToLeftBrace(toks, Parser_advance(toks, cur))}})

with_parent(class, parent) == [class EXCEPT !.parent = Some(parent)]

\* parse_class behind the class name: the optional ": [public] Parent".  A
\* token behind the colon that is no identifier is consumed and dropped.
class_inheritance(toks, cur, class) ==
    IF Parser_check(toks, cur, "Colon")
    THEN Only({IF ~p.ok THEN p
               ELSE [ok |-> TRUE,
                     class |-> IF p.token.token_type.tag = "Identifier"
                               THEN with_parent(class, p.token.token_type.value)
                               ELSE class,
                     cur |-> p.cur] :
                  p \in {Parser_consume(toks,
                             IF Parser_check(toks, cur + 1, "Public") THEN cur + 2
                             ELSE cur + 1)}})
    ELSE [ok |-> TRUE, class |-> class, cur |-> cur]

\* parse_class behind the inheritance: "class Name;" is complete, else the
\* body must open.
class_opening(toks, h) ==
    IF Parser_check(toks, h.cur, "Semicolon")
    THEN [ok |-> TRUE, class |-> h.class, opened |-> FALSE, cur |-> h.cur + 1]
    ELSE Only({IF b.ok
               THEN [ok |-> TRUE, class |-> h.class, opened |-> TRUE, cur |-> b.cur]
               ELSE b : b \in {expect_token(toks, h.cur, "LeftBrace")}})

\* parse_class up to its body loop; cur is at the Class token.
class_header(toks, cur) ==
    Only({IF ~name_token.ok THEN name_token
          ELSE IF name_token.token.token_type.tag # "Identifier"
          THEN ParseErr(<<"Expected class name">>,
                        [line |-> name_token.token.line,
                         column |-> name_token.token.column], name_token.cur)
          ELSE Only({IF h.ok THEN class_opening(toks, h) ELSE h :
                        h \in {class_inheritance(toks, name_token.cur,
                                   ClassNode_new(name_token.token.token_type.value))}}) :
             name_token \in {Parser_consume(toks, cur + 1)}})

\* HashMap::insert
insert(map, key, value) ==
    [k \in DOMAIN map \cup {key} |-> IF k = key THEN value ELSE map[k]]


(***************************************************************************)
(* Parser::parse step by step.  class_stack holds the ClassNode of every   *)
(* parse_class invocation whose body loop is running, innermost last; an   *)
(* empty stack is the loop of parse() itself.                              *)
(***************************************************************************)
\* class.nested_classes.push(nested) in the invocation on top of the stack,
\* root.nested_classes.push(class) in parse().
PushNested(stack, class) ==
    [stack EXCEPT ![Len(stack)].nested_classes = Append(@, class)]

InBody == parse_pc = "parse" /\ class_stack # <<>>
InTopLevel == parse_pc = "parse" /\ class_stack = <<>>

\* The condition of the body loop of parse_class.
BodyContinues ==
    ~Parser_check(ptokens, current, "RightBrace") /\ ~Parser_is_at_end(ptokens, current)

\* The ? operator: the error leaves every active parse_class and parse().
ParseFails(r) ==
    /\ current' = r.cur
    /\ class_stack' = <<>>
    /\ parse_result' = Err(r.error)
    /\ parse_pc' = "done"
    /\ UNCHANGED <<ptokens, root>>

\* parse(): neither Class nor Enum, the token is skipped.
ParseSkipToken ==
    /\ InTopLevel
    /\ ~Parser_is_at_end(ptokens, current)
    /\ ~Parser_check(ptokens, current, "Class")
    /\ ~Parser_check(ptokens, current, "Enum")
    /\ current' = Parser_advance(ptokens, current)
    /\ UNCHANGED <<ptokens, class_stack, root, parse_result, parse_pc>>

ParseSkipEnum ==
    /\ InTopLevel
    /\ ~Parser_check(ptokens, current, "Class")
    /\ Parser_check(ptokens, current, "Enum")
    /\ \E r \in {skip_enum_block(ptokens, current)} :
          /\ r.ok
          /\ current' = r.cur
    /\ UNCHANGED <<ptokens, class_stack, root, parse_result, parse_pc>>

ParseEnumFails ==
    /\ InTopLevel
    /\ ~Parser_check(ptokens, current, "Class")
    /\ Parser_check(ptokens, current, "Enum")
    /\ \E r \in {skip_enum_block(ptokens, current)} :
          /\ ~r.ok
          /\ ParseFails(r)

\* parse(): the loop ends, Ok(root).
ParseReturn ==
    /\ InTopLevel
    /\ Parser_is_at_end(ptokens, current)
    /\ parse_result' = Ok(root)
    /\ parse_pc' = "done"
    /\ UNCHANGED <<ptokens, current, class_stack, root>>

\* parse_class is entered from parse() or from the body loop of the
\* invocation on top.
AtClass ==
    /\ parse_pc = "parse"
    /\ class_stack # <<>> => BodyContinues
    /\ Parser_check(ptokens, current, "Class")

\* "class Name;" and "class Name : Parent;": parse_class returns at once.
ClassDeclaration ==
    /\ AtClass
    /\ \E h \in {class_header(ptokens, current)} :
          /\ h.ok /\ ~h.opened
          /\ current' = h.cur
          /\ IF class_stack = <<>>
             THEN /\ root' = [root EXCEPT !.nested_classes = Append(@, h.class)]
                  /\ UNCHANGED class_stack
             ELSE /\ class_stack' = PushNested(class_stack, h.class)
                  /\ UNCHANGED root
    /\ UNCHANGED <<ptokens, parse_result, parse_pc>>

\* parse_class reaches its body loop.
ClassOpen ==
    /\ AtClass
    /\ \E h \in {class_header(ptokens, current)} :
          /\ h.ok /\ h.opened
          /\ current' = h.cur
          /\ class_stack' = Append(class_stack, h.class)
    /\ UNCHANGED <<ptokens, root, parse_result, parse_pc>>

ClassHeaderFails ==
    /\ AtClass
    /\ \E h \in {class_header(ptokens, current)} :
          /\ ~h.ok
          /\ ParseFails(h)

\* Body loop: a stray semicolon.
BodySemicolon ==
    /\ InBody /\ BodyContinues
    /\ ~Parser_check(ptokens, current, "Class")
    /\ Parser_check(ptokens, current, "Semicolon")
    /\ current' = Parser_advance(ptokens, current)
    /\ UNCHANGED <<ptokens, class_stack, root, parse_result, parse_pc>>

AtProperty ==
    /\ InBody /\ BodyContinues
    /\ ~Parser_check(ptokens, current, "Class")
    /\ ~Parser_check(ptokens, current, "Semicolon")

\* Body loop: class.properties.insert(property.name, property).
BodyProperty ==
    /\ AtProperty
    /\ \E r \in {parse_property(ptokens, current)} :
          /\ r.ok
          /\ current' = r.cur
          /\ class_stack' =
                [class_stack EXCEPT ![Len(class_stack)].properties =
                    insert(@, r.property.name, r.property)]
    /\ UNCHANGED <<ptokens, root, parse_result, parse_pc>>

BodyPropertyFails ==
    /\ AtProperty
    /\ \E r \in {parse_property(ptokens, current)} :
          /\ ~r.ok
          /\ ParseFails(r)

\* The body loop ends at the closing brace: Ok(class) goes to the caller.
ClassClose ==
    /\ InBody /\ ~BodyContinues
    /\ \E e \in {expect_token(ptokens, current, "RightBrace")} :
          /\ e.ok
          /\ current' = e.cur
    /\ IF Len(class_stack) = 1
       THEN /\ root' = [root EXCEPT !.nested_classes =
                           Append(@, class_stack[Len(class_stack)])]
            /\ class_stack' = <<>>
       ELSE /\ class_stack' =
                  PushNested(SubSeq(class_stack, 1, Len(class_stack) - 1),
                             class_stack[Len(class_stack)])
            /\ UNCHANGED root
    /\ UNCHANGED <<ptokens, parse_result, parse_pc>>

\* The body loop ends at the end of the tokens.
ClassCloseFails ==
    /\ InBody /\ ~BodyContinues
    /\ \E e \in {expect_token(ptokens, current, "RightBrace")} :
          /\ ~e.ok
          /\ ParseFails(e)

(***************************************************************************)
(* Parser inputs: token sequences put together from fragments, and classes *)
(* nested one level deeper than the configured maximum.                    *)
(***************************************************************************)
Ident(name) == TokenTypeOf("Identifier", name)
Number(mant, exp) == TokenTypeOf("NumberLiteral", [mant |-> mant, exp |-> exp])

Fragments ==
    << <<TokenType("Class"), Ident(<<"A">>), TokenType("LeftBrace")>>,
      <<TokenType("Class"), Ident(<<"B">>), TokenType("Colon"), TokenType("Public"),
        Ident(<<"A">>), TokenType("LeftBrace")>>,
      <<TokenType("RightBrace"), TokenType("Semicolon")>>,
      <<TokenType("Class"), Ident(<<"C">>), TokenType("Colon"), Ident(<<"A">>),
        TokenType("Semicolon")>>,
      <<TokenType("Class"), Ident(<<"D">>), TokenType("Colon"), Number(1, 0),
        TokenType("Semicolon")>>,
      <<TokenType("Class")>>,
      <<TokenType("Class"), Number(1, 0)>>,
      <<Ident(<<"p">>), TokenType("Equals"), Number(-15, -1), TokenType("Semicolon")>>,
      <<Ident(<<"p">>), TokenType("Equals"),
        TokenTypeOf("StringLiteral", <<"\"", "s", "\"">>)>>,
      <<Ident(<<"q">>), TokenType("ArrayMarker"), TokenType("Equals"),
        TokenType("LeftBrace"), TokenTypeOf("StringLiteral", <<"s">>), TokenType("Comma"),
        Number(1, 1), TokenType("Comma"), Ident(<<"z">>), TokenType("RightBrace"),
        TokenType("Semicolon")>>,
      <<Ident(<<"q">>), TokenType("ArrayMarker"), TokenType("PlusEquals"),
        TokenType("LeftBrace"), TokenTypeOf("BooleanLiteral", TRUE),
        TokenType("RightBrace"), TokenType("Semicolon")>>,
      <<Ident(<<"q">>), TokenType("ArrayMarker"), TokenType("MinusEquals"),
        TokenType("LeftBrace"), TokenType("LeftBrace"), Number(1, 0),
        TokenType("RightBrace"), TokenType("RightBrace"), TokenType("Semicolon")>>,
      <<Ident(<<"q">>), TokenType("ArrayMarker"), TokenType("Equals"),
        TokenType("LeftBrace"), TokenType("Colon"), TokenType("RightBrace"),
        TokenType("Semicolon")>>,
      <<Ident(<<"b">>), TokenType("Equals"), TokenTypeOf("BooleanLiteral", FALSE),
        TokenType("Semicolon")>>,
      <<TokenType("Enum"), Ident(<<"E">>), TokenType("LeftBrace"), Ident(<<"a">>),
        TokenType("Equals"), Number(1, 0), TokenType("Comma"), Ident(<<"b">>),
        TokenType("RightBrace"), TokenType("Semicolon")>>,
      <<TokenType("Enum"), Ident(<<"E">>)>>,
      <<TokenType("Semicolon")>> >>

\* The types at the positions the tokenizer would give on a single line.
Positioned(types) == [i \in 1..Len(types) |-> Token_new(types[i], 1, i - 1)]

RECURSIVE Repeat(_, _)
Repeat(piece, n) ==
    IF n = 0 THEN <<>>
    ELSE Only({piece \o rest : rest \in {Repeat(piece, n - 1)}})

\* class N { class N { ... }; };  with d classes inside each other.
NestedClasses(d) ==
    Repeat(<<TokenType("Class"), Ident(<<"N">>), TokenType("LeftBrace")>>, d) \o
    Repeat(<<TokenType("RightBrace"), TokenType("Semicolon")>>, d)

DeepestNest == ParserConfig_default.max_depth + 1

\* The fragments chosen by their numbers, one after the other.
FragmentInput(choice) ==
    Positioned(Concat([i \in 1..Len(choice) |-> Fragments[choice[i]]]))

FragmentChoices == SeqsUpTo(1..Len(Fragments), MaxFragments)

\* Token streams that end inside a construct: after any lead, one or two open
\* class blocks, then a member cut before its last token (k = 0: nothing but
\* the open blocks); or the enum block cut before its closing brace.
MemberFragments == {8, 10, 11, 12, 14}
EnumFragment ==
    CHOOSE i \in 1..Len(Fragments) :
        /\ Fragments[i][1].tag = "Enum"
        /\ \E k \in 1..Len(Fragments[i]) : Fragments[i][k].tag = "RightBrace"
OpenBlocks == {<<1>>, <<1, 2>>}
Leads == {<<>>, <<1, 3>>, <<17>>}

FragmentTypes(choice) == Concat([i \in 1..Len(choice) |-> Fragments[choice[i]]])

CutMember(lead, open, m, k) ==
    FragmentTypes(lead \o open) \o SubSeq(Fragments[m], 1, k)

CutEnum(lead, k) == FragmentTypes(lead) \o SubSeq(Fragments[EnumFragment], 1, k)

\* The index of the closing brace of the enum fragment.
EnumClose ==
    CHOOSE k \in 1..Len(Fragments[EnumFragment]) :
        Fragments[EnumFragment][k].tag = "RightBrace"

\* Parser::new(tokens), then parse().
InitPar ==
    /\ IdleScan
    /\ IdleArr
    /\ IdleInh
    /\ IdleTok
    /\ IdlePre
    /\ \/ \E choice \in FragmentChoices : ptokens = FragmentInput(choice)
       \/ \E d \in {DeepestNest - 1, DeepestNest} : ptokens = Positioned(NestedClasses(d))
       \/ \E lead \in Leads, open \in OpenBlocks, m \in MemberFragments :
             \E k \in 0..(Len(Fragments[m]) - 1) :
                ptokens = Positioned(CutMember(lead, open, m, k))
       \/ \E lead \in Leads, k \in 1..(EnumClose - 1) :
             ptokens = Positioned(CutEnum(lead, k))
    /\ current = 0
    /\ class_stack = <<>>
    /\ root = ClassNode_new(<<>>)
    /\ parse_result = NoResult
    /\ parse_pc = "parse"

NextPar ==
    \/ ParseSkipToken /\ UNCHANGED outside_par
    \/ ParseSkipEnum /\ UNCHANGED outside_par
    \/ ParseEnumFails /\ UNCHANGED outside_par
    \/ ParseReturn /\ UNCHANGED outside_par
    \/ ClassDeclaration /\ UNCHANGED outside_par
    \/ ClassOpen /\ UNCHANGED outside_par
    \/ ClassHeaderFails /\ UNCHANGED outside_par
    \/ BodySemicolon /\ UNCHANGED outside_par
    \/ BodyProperty /\ UNCHANGED outside_par
    \/ BodyPropertyFails /\ UNCHANGED outside_par
    \/ ClassClose /\ UNCHANGED outside_par
    \/ ClassCloseFails /\ UNCHANGED outside_par

SpecPar == InitPar /\ [][NextPar]_vars


(***************************************************************************)
(* Claims about the parser (SpecPar).                                      *)
(***************************************************************************)
ParseReturned == parse_pc = "done"

\* How many classes lie inside each other below node (0: no nested class).
RECURSIVE ClassDepth(_)
ClassDepth(node) ==
    IF node.nested_classes = <<>> THEN 0
    ELSE Only({1 + (CHOOSE m \in depths : \A d \in depths : d <= m) :
                  depths \in {{ClassDepth(node.nested_classes[i]) :
                                  i \in DOMAIN node.nested_classes}}})

\* C15: class nesting depth is bounded by the configured maximum (default
\* 32): parse never returns a tree whose classes nest deeper than that; such
\* input fails with a ParseError.
C15_NestingDepthBounded ==
    (ParseReturned /\ parse_result.ok)
        => ClassDepth(parse_result.value) <= ParserConfig_default.max_depth

\* C16: parse_array_value reports "Invalid array element" only for a token
\* that is no value of the grammar: neither string, number, boolean,
\* identifier nor the opening brace of a nested array value.  The token is
\* the one consumed last, tokens[current - 1] in the source's 0-based count.
C16_ArrayAcceptsEveryValue ==
    (ParseReturned /\ ~parse_result.ok
         /\ parse_result.error.message[1] = "Invalid array element")
        => ptokens[current].token_type.tag \notin
              {"StringLiteral", "NumberLiteral", "BooleanLiteral", "Identifier",
               "LeftBrace"}


(***************************************************************************)
(* Preprocessor (src/lexer/preprocessor.rs) and PathResolver               *)
(* (src/utils/path_resolver.rs).                                           *)
(*                                                                         *)
(* A path is [dir, name]: the directory as written ("" for a relative      *)
(* path) and the rest as chars.  PathBuf equality is equality of what is   *)
(* written, so [dir |-> "", name |-> n] and [dir |-> cwd, name |-> n]      *)
(* differ although they reach the same file.  The file system fs maps the  *)
(* location a path reaches to the file there, or to Directory for an entry *)
(* that exists and cannot be read as text.                                 *)
(***************************************************************************)
File(content) == [is_file |-> TRUE, content |-> content]
Directory == [is_file |-> FALSE, content |-> <<>>]

PathOf(dir, name) == [dir |-> dir, name |-> name]

\* Path::new("")
EmptyPath == PathOf("", <<>>)

\* Path::parent: None for the empty path.
Path_parent(path) == IF path = EmptyPath THEN None ELSE Some(path.dir)

\* Path::join with a relative include path.
join(dir, include_path) == PathOf(dir, include_path)

\* Where the operating system looks for the path: a relative one starts at
\* the working directory wd.
Location(path, wd) == PathOf(IF path.dir = "" THEN wd ELSE path.dir, path.name)

\* Path::exists
exists(files, wd, path) == Location(path, wd) \in DOMAIN files

IncludeError(include_path, source_file) ==
    [kind |-> "IncludeError", include_path |-> include_path, source_file |-> source_file]

Io == [kind |-> "Io"]

\* fs::read_to_string
read_to_string(files, wd, path) ==
    IF exists(files, wd, path) /\ files[Location(path, wd)].is_file
    THEN Ok(files[Location(path, wd)].content)
    ELSE Err(Io)

\* The candidates of resolve_include in the order it tries them.
Candidates(resolver, include_path, source_file) ==
    Only({<<join(source_dir, include_path)>> \o
          [i \in 1..Len(resolver.include_paths) |->
              join(resolver.include_paths[i], include_path)] \o
          <<join(resolver.base_path, include_path)>> :
             source_dir \in {IF Path_parent(source_file) = None THEN ""
                             ELSE Path_parent(source_file)[1]}})

\* PathResolver::resolve_include: the first candidate that exists.
resolve_include(files, wd, resolver, include_path, source_file) ==
    Only({IF \E i \in 1..Len(c) : exists(files, wd, c[i])
          THEN Ok(c[CHOOSE i \in 1..Len(c) :
                       /\ exists(files, wd, c[i])
                       /\ \A j \in 1..(i - 1) : ~exists(files, wd, c[j])])
          ELSE Err(IncludeError(include_path, source_file)) :
             c \in {Candidates(resolver, include_path, source_file)}})

\* str::trim
trim(s) ==
    Only({IF first > Len(s) THEN <<>>
          ELSE SubSeq(s, first,
                      CHOOSE last \in first..Len(s) :
                          /\ s[last] \notin Whitespace
                          /\ \A k \in (last + 1)..Len(s) : s[k] \in Whitespace) :
             first \in {ScanWhile(s, 1, Whitespace)}})

\* chars[i..].starts_with(name)
starts_with_at(chars, i, name) ==
    /\ i + Len(name) - 1 <= Len(chars)
    /\ SubSeq(chars, i, i + Len(name) - 1) = name

\* str::contains
contains(s, pattern) == \E i \in 1..Len(s) : starts_with_at(s, i, pattern)

WordChars == Letters \cup Digits \cup {"_"}

IncludeWord == <<"#", "i", "n", "c", "l", "u", "d", "e">>
DefineWord == <<"#", "d", "e", "f", "i", "n", "e">>

\* INCLUDE_PATTERN  #include\s+"([^"]+)"  matched at position i: the quote
\* that opens at open and its closing quote.
IncludeQuotes(line, i) ==
    Only({[open |-> open, close |-> ScanUntil(line, open + 1, {"\""})] :
             open \in {ScanWhile(line, i + Len(IncludeWord), Whitespace)}})

IncludeMatchesAt(line, i) ==
    /\ starts_with_at(line, i, IncludeWord)
    /\ \E q \in {IncludeQuotes(line, i)} :
          /\ q.open > i + Len(IncludeWord)
          /\ q.open <= Len(line) /\ line[q.open] = "\""
          /\ q.close <= Len(line)
          /\ q.close > q.open + 1

\* INCLUDE_PATTERN.captures(line): group 1 of the leftmost match.
include_captures(line) ==
    IF \E i \in 1..Len(line) : IncludeMatchesAt(line, i)
    THEN Only({Some(SubSeq(line, q.open + 1, q.close - 1)) :
                  q \in {IncludeQuotes(line,
                            CHOOSE i \in 1..Len(line) :
                                /\ IncludeMatchesAt(line, i)
                                /\ \A j \in 1..(i - 1) : ~IncludeMatchesAt(line, j))}})
    ELSE None

\* DEFINE_PATTERN  #define\s+(\w+)\s+(.+)  matched at position i: the name
\* is line[name..stop - 1], the blanks behind it reach to rest - 1.
DefineParts(line, i) ==
    Only({Only({[name |-> name, stop |-> stop,
                 rest |-> ScanWhile(line, stop, Whitespace)] :
                    stop \in {ScanWhile(line, name, WordChars)}}) :
             name \in {ScanWhile(line, i + Len(DefineWord), Whitespace)}})

\* Where (.+) can begin: behind at least one blank, at a char that is no
\* line break.  \s+ is greedy, so it is the last such position up to rest.
ValueStarts(line, d) ==
    {j \in (d.stop + 1)..d.rest : j <= Len(line) /\ line[j] # "\n"}

DefineMatchesAt(line, i) ==
    /\ starts_with_at(line, i, DefineWord)
    /\ \E d \in {DefineParts(line, i)} :
          /\ d.name > i + Len(DefineWord)
          /\ d.stop > d.name
          /\ ValueStarts(line, d) # {}

\* DEFINE_PATTERN.captures(line): group 1 and the trimmed group 2 of the
\* leftmost match.
define_captures(line) ==
    IF \E i \in 1..Len(line) : DefineMatchesAt(line, i)
    THEN Only({Only({Some([name |-> SubSeq(line, d.name, d.stop - 1),
                           value |-> trim(SubSeq(line, from,
                                         ScanUntil(line, from, {"\n"}) - 1))]) :
                        from \in {CHOOSE j \in ValueStarts(line, d) :
                                     \A k \in ValueStarts(line, d) : k <= j}}) :
                  d \in {DefineParts(line,
                            CHOOSE i \in 1..Len(line) :
                                /\ DefineMatchesAt(line, i)
                                /\ \A j \in 1..(i - 1) : ~DefineMatchesAt(line, j))}})
    ELSE None

\* The substitution loop of process_line from position i on: the set of
\* texts it can push.  `for (name, value) in &self.defines` visits the
\* HashMap in an arbitrary order and stops at the first name that matches,
\* so any matching name can be the one replaced.
RECURSIVE substitute(_, _, _, _, _)
substitute(chars, i, in_string, escape_next, defs) ==
    IF i > Len(chars) THEN {<<>>}
    ELSE IF chars[i] = "\\" /\ in_string
    THEN {<<chars[i]>> \o r :
             r \in substitute(chars, i + 1, in_string, ~escape_next, defs)}
    ELSE IF chars[i] = "\""
    THEN {<<chars[i]>> \o r :
             r \in substitute(chars, i + 1,
                              IF escape_next THEN in_string ELSE ~in_string, FALSE, defs)}
    ELSE IF ~in_string
    THEN IF \E name \in DOMAIN defs : starts_with_at(chars, i, name)
         THEN UNION {{defs[name] \o r :
                         r \in substitute(chars, i + Len(name), in_string,
                                          escape_next, defs)} :
                        name \in {n \in DOMAIN defs : starts_with_at(chars, i, n)}}
         ELSE {<<chars[i]>> \o r :
                  r \in substitute(chars, i + 1, in_string, escape_next, defs)}
    ELSE {<<chars[i]>> \o r : r \in substitute(chars, i + 1, in_string, FALSE, defs)}

\* process_line up to the point where it touches self: what the line is.
\*   "none"    : None
\*   "text"    : Some of one of outputs
\*   "include" : an #include directive with include_path
\*   "define"  : a #define directive, None after defines.insert(name, value)
process_line(line, defs) ==
    IF trim(line) = <<>> THEN [kind |-> "none"]
    ELSE IF contains(trim(line), <<"[", "]">>)
    THEN [kind |-> "text", outputs |-> {line}]
    ELSE IF trim(line)[1] = "#"
    THEN IF include_captures(line) # None
         THEN [kind |-> "include", include_path |-> include_captures(line)[1]]
         ELSE IF define_captures(line) # None
         THEN [kind |-> "define", name |-> define_captures(line)[1].name,
               value |-> define_captures(line)[1].value]
         ELSE [kind |-> "none"]
    ELSE [kind |-> "text", outputs |-> substitute(line, 1, FALSE, FALSE, defs)]

\* The char loop of process_content from st.pos up to the line break that
\* ends current_line (newline TRUE) or to the end of the content.
RECURSIVE scan_line(_, _)

\* One char of that loop which does not end the line.
scan_char(content, st, c, following) ==
    IF c = "\\" /\ st.in_string
    THEN [st EXCEPT !.pos = @ + 1, !.escape_next = ~@, !.current_line = Append(@, c)]
    ELSE IF c = "\""
    THEN [st EXCEPT !.pos = @ + 1, !.escape_next = FALSE,
                    !.in_string = IF st.escape_next THEN @ ELSE ~@,
                    !.current_line = Append(@, c)]
    ELSE IF c = "/" /\ ~st.in_string /\ ~st.escape_next
    THEN IF following = None THEN [st EXCEPT !.pos = @ + 1]
         ELSE IF following[1] = "/" /\ ~st.in_multiline_comment
         THEN [st EXCEPT !.pos = @ + 2, !.in_comment = TRUE,
                         !.current_line = @ \o <<c, "/">>]
         ELSE IF following[1] = "*" /\ ~st.in_comment
         THEN [st EXCEPT !.pos = @ + 2, !.in_multiline_comment = TRUE,
                         !.current_line = @ \o <<c, "*">>]
         ELSE [st EXCEPT !.pos = @ + 1, !.current_line = Append(@, c)]
    ELSE IF c = "*" /\ st.in_multiline_comment /\ ~st.in_string
    THEN IF following = Some("/")
         THEN [st EXCEPT !.pos = @ + 2, !.in_multiline_comment = FALSE,
                         !.current_line = @ \o <<c, "/">>]
         ELSE [st EXCEPT !.pos = @ + 1, !.current_line = Append(@, c)]
    ELSE IF c = "\n"
    THEN [st EXCEPT !.pos = @ + 1, !.in_comment = FALSE, !.escape_next = FALSE,
                    !.current_line = Append(@, c)]
    ELSE [st EXCEPT !.pos = @ + 1, !.escape_next = FALSE, !.current_line = Append(@, c)]

scan_line(content, st) ==
    IF st.pos > Len(content) THEN [st EXCEPT !.newline = FALSE]
    ELSE IF content[st.pos] = "\n" /\ ~st.in_multiline_comment
    THEN [st EXCEPT !.pos = @ + 1, !.in_comment = FALSE, !.escape_next = FALSE,
                    !.newline = TRUE]
    ELSE Only({scan_line(content, st1) :
                  st1 \in {scan_char(content, st, content[st.pos],
                                     IF st.pos < Len(content)
                                     THEN Some(content[st.pos + 1]) ELSE None)}})

\* The scan of the next line of the frame on top: every flag but in_string
\* is off where a line begins.
NextLine(frame) ==
    scan_line(frame.content,
              [pos |-> frame.pos, current_line |-> <<>>, in_string |-> frame.in_string,
               in_comment |-> FALSE, in_multiline_comment |-> FALSE,
               escape_next |-> FALSE, newline |-> FALSE])

\* What process_content does with current_line: with a line break behind
\* it a blank line gives "\n" and any other line goes to process_line; at
\* the end of the content a non-empty line goes to process_line.
LineKind(s, defs) ==
    IF s.newline /\ trim(s.current_line) = <<>>
    THEN [kind |-> "text", outputs |-> {<<>>}]
    ELSE IF ~s.newline /\ s.current_line = <<>> THEN [kind |-> "none"]
    ELSE process_line(s.current_line, defs)

\* result.push('\n') behind a line that ended in a line break.
LineEnd(newline) == IF newline THEN <<"\n">> ELSE <<>>


(***************************************************************************)
(* Preprocessor::process_file step by step.  pp_stack holds one frame per  *)
(* process_content that is running, innermost last: the file, its content, *)
(* the position of the char loop, in_string, the result built so far and,  *)
(* while an #include of it is being processed, whether the directive's     *)
(* line ended in a line break.                                             *)
(***************************************************************************)
Frame(file, content) ==
    [file |-> file, content |-> content, pos |-> 1, in_string |-> FALSE,
     result |-> <<>>, newline |-> FALSE]

TopFrame == pp_stack[Len(pp_stack)]

\* The char loop of the frame on top has chars left.
CharsLeft == pp_pc = "run" /\ TopFrame.pos <= Len(TopFrame.content)

pp_env == <<fs, cwd, path_resolver>>

\* process_file: the path is in processed_files, Ok(String::new()).
ProcessFileSkip ==
    /\ pp_pc = "call"
    /\ \E i \in 1..Len(processed_files) : processed_files[i] = pp_arg
    /\ pp_ret' = Ok(<<>>)
    /\ pp_pc' = "ret"
    /\ UNCHANGED <<pp_env, defines, processed_files, pp_stack, pp_arg, resolution,
                   pp_result>>

\* process_file: the path is new and read_to_string gives its content.
ProcessFileRead ==
    /\ pp_pc = "call"
    /\ \A i \in 1..Len(processed_files) : processed_files[i] # pp_arg
    /\ \E content \in {read_to_string(fs, cwd, pp_arg)} :
          /\ content.ok
          /\ pp_stack' = Append(pp_stack, Frame(pp_arg, content.value))
    /\ processed_files' = Append(processed_files, pp_arg)
    /\ pp_pc' = "run"
    /\ UNCHANGED <<pp_env, defines, pp_arg, pp_ret, resolution, pp_result>>

\* process_file: the path is new and read_to_string fails.
ProcessFileUnreadable ==
    /\ pp_pc = "call"
    /\ \A i \in 1..Len(processed_files) : processed_files[i] # pp_arg
    /\ \E content \in {read_to_string(fs, cwd, pp_arg)} :
          /\ ~content.ok
          /\ pp_ret' = Err(content.error)
    /\ processed_files' = Append(processed_files, pp_arg)
    /\ pp_pc' = "ret"
    /\ UNCHANGED <<pp_env, defines, pp_stack, pp_arg, resolution, pp_result>>

\* process_content: one line that is no #include is scanned and handled.
EmitLine ==
    /\ CharsLeft
    /\ \E s \in {NextLine(TopFrame)} :
       \E line \in {LineKind(s, defines)} :
          /\ line.kind # "include"
          /\ defines' = IF line.kind = "define"
                        THEN insert(defines, line.name, line.value) ELSE defines
          /\ \E out \in (IF line.kind = "text"
                         THEN {text \o LineEnd(s.newline) : text \in line.outputs}
                         ELSE {<<>>}) :
                pp_stack' = [pp_stack EXCEPT ![Len(pp_stack)] =
                                [@ EXCEPT !.pos = s.pos, !.in_string = s.in_string,
                                          !.result = @ \o out]]
    /\ UNCHANGED <<pp_env, processed_files, pp_arg, pp_ret, resolution, pp_pc,
                   pp_result>>

\* process_line: resolve_include(include_path, Path::new("")).
Resolution(include_path) ==
    [include_path |-> include_path, source_file |-> TopFrame.file,
     resolved |-> resolve_include(fs, cwd, path_resolver, include_path, EmptyPath)]

\* process_line: the #include resolves, process_file(resolved_path) begins.
IncludeCall ==
    /\ CharsLeft
    /\ \E s \in {NextLine(TopFrame)} :
       \E line \in {LineKind(s, defines)} :
          /\ line.kind = "include"
          /\ \E r \in {Resolution(line.include_path)} :
                /\ r.resolved.ok
                /\ resolution' = Some(r)
                /\ pp_arg' = r.resolved.value
          /\ pp_stack' = [pp_stack EXCEPT ![Len(pp_stack)] =
                             [@ EXCEPT !.pos = s.pos, !.in_string = s.in_string,
                                       !.newline = s.newline]]
    /\ pp_pc' = "call"
    /\ UNCHANGED <<pp_env, defines, processed_files, pp_ret, pp_result>>

\* process_line: the #include does not resolve, `if let Ok(..)` fails and
\* the line gives None.
IncludeDropped ==
    /\ CharsLeft
    /\ \E s \in {NextLine(TopFrame)} :
       \E line \in {LineKind(s, defines)} :
          /\ line.kind = "include"
          /\ \E r \in {Resolution(line.include_path)} :
                /\ ~r.resolved.ok
                /\ resolution' = Some(r)
          /\ pp_stack' = [pp_stack EXCEPT ![Len(pp_stack)] =
                             [@ EXCEPT !.pos = s.pos, !.in_string = s.in_string]]
    /\ UNCHANGED <<pp_env, defines, processed_files, pp_arg, pp_ret, pp_pc, pp_result>>

\* process_content: the chars are used up, Ok(result).
ContentReturn ==
    /\ pp_pc = "run"
    /\ TopFrame.pos > Len(TopFrame.content)
    /\ pp_ret' = Ok(TopFrame.result)
    /\ pp_stack' = SubSeq(pp_stack, 1, Len(pp_stack) - 1)
    /\ pp_pc' = "ret"
    /\ UNCHANGED <<pp_env, defines, processed_files, pp_arg, resolution, pp_result>>

\* process_line gets the Result of process_file(resolved_path): Ok gives
\* Some(included_content), Err gives None.
IncludeReturn ==
    /\ pp_pc = "ret"
    /\ pp_stack # <<>>
    /\ pp_stack' = [pp_stack EXCEPT ![Len(pp_stack)].result =
                       IF pp_ret.ok THEN @ \o pp_ret.value \o LineEnd(TopFrame.newline)
                       ELSE @]
    /\ pp_pc' = "run"
    /\ UNCHANGED <<pp_env, defines, processed_files, pp_arg, pp_ret, resolution,
                   pp_result>>

\* The caller's process_file returns.
ProcessFileReturn ==
    /\ pp_pc = "ret"
    /\ pp_stack = <<>>
    /\ pp_result' = pp_ret
    /\ pp_pc' = "done"
    /\ UNCHANGED <<pp_env, defines, processed_files, pp_stack, pp_arg, pp_ret,
                   resolution>>


(***************************************************************************)
(* Preprocessor inputs.  The caller processes the file a of directory src; *)
(* its content is up to MaxLines of the lines below.  The other files are  *)
(* called b and lie in src, in the include directories inc and lib or in   *)
(* the base directory.  Each file holds one capital letter that no other   *)
(* file holds.                                                             *)
(***************************************************************************)
Lines ==
    << <<"A", ";">>,
       <<"#", "i", "n", "c", "l", "u", "d", "e", " ", "\"", "b", "\"">>,
       <<"#", "i", "n", "c", "l", "u", "d", "e", " ", "\"", "a", "\"">>,
       <<"#", "i", "n", "c", "l", "u", "d", "e", " ", "\"", "c", "\"">>,
       <<"#", "d", "e", "f", "i", "n", "e", " ", "M", " ", "1">>,
       <<"x", "=", "M", ";", " ", "/", "/", " ", "M">>,
       <<"/", "*", " ", "M", " ", "*", "/", " ", "y", ";">>,
       <<"s", "=", "\"", "/", "/", "M", "\"", ";">>,
       <<"#", "d", "e", "f", "i", "n", "e", " ", "N">>,
       <<"q", "[", "]", "=", "{", "M", "}", ";">>,
       <<>>,
       <<"/", "*", "\n", "M", "*", "/">>,
       <<"/">>,
       <<"t", "=", "\"", "\\", "\"", "M", "\"", ";">>,
       <<"#", "d", "e", "f", "i", "n", "e", " ", "M", " ", "1", "\n",
         "#", "d", "e", "f", "i", "n", "e", " ", "M", "N", " ", "2">>,
       <<"y", "=", "M", "N", ";">> >>

\* lines.join("\n")
RECURSIVE JoinLines(_)
JoinLines(ls) ==
    IF ls = <<>> THEN <<>>
    ELSE IF Len(ls) = 1 THEN ls[1]
    ELSE Only({ls[1] \o <<"\n">> \o JoinLines(rest) : rest \in {Tail(ls)}})

TopContents ==
    {JoinLines([i \in 1..Len(choice) |-> Lines[choice[i]]]) :
        choice \in SeqsUpTo(1..Len(Lines), MaxLines)}

TopFile == PathOf("src", <<"a">>)

\* A file b: a first line, then its letter.
FileB(first, letter) == File(first \o <<letter, ";">>)

IncludesA == <<"#", "i", "n", "c", "l", "u", "d", "e", " ", "\"", "a", "\"", "\n">>
IncludesB == <<"#", "i", "n", "c", "l", "u", "d", "e", " ", "\"", "b", "\"", "\n">>

\* [cwd, include_paths, files]: the working directory, the directories given
\* to add_include_path in that order, and the files b.
Environments ==
    { [cwd |-> "src", include_paths |-> <<>>,
       files |-> (PathOf("src", <<"b">>) :> FileB(<<>>, "B"))],
      [cwd |-> "other", include_paths |-> <<>>,
       files |-> (PathOf("src", <<"b">>) :> FileB(<<>>, "B"))],
      [cwd |-> "other", include_paths |-> <<"inc">>,
       files |-> (PathOf("src", <<"b">>) :> FileB(<<>>, "B")) @@
                 (PathOf("inc", <<"b">>) :> FileB(IncludesA, "C")) @@
                 (PathOf("base", <<"b">>) :> FileB(<<>>, "D"))],
      [cwd |-> "other", include_paths |-> <<"lib", "inc">>,
       files |-> (PathOf("inc", <<"b">>) :> FileB(<<>>, "C")) @@
                 (PathOf("lib", <<"b">>) :> FileB(IncludesB, "E")) @@
                 (PathOf("base", <<"b">>) :> FileB(<<>>, "D"))],
      [cwd |-> "other", include_paths |-> <<"inc">>,
       files |-> (PathOf("base", <<"b">>) :> FileB(IncludesB, "D"))],
      [cwd |-> "other", include_paths |-> <<"inc">>,
       files |-> (PathOf("base", <<"b">>) :> Directory)],
      [cwd |-> "src", include_paths |-> <<"inc">>,
       files |-> (PathOf("inc", <<"b">>) :> FileB(IncludesA, "C"))] }

\* The letter that marks the file at a location.
Letter(location) ==
    IF location.name = <<"a">> THEN "A"
    ELSE IF location.dir = "src" THEN "B"
    ELSE IF location.dir = "inc" THEN "C"
    ELSE IF location.dir = "base" THEN "D"
    ELSE "E"

\* Preprocessor::new("base"), add_include_path for each include directory,
\* then process_file("src/a").
InitPre ==
    /\ IdleScan
    /\ IdleArr
    /\ IdleInh
    /\ IdleTok
    /\ IdlePar
    /\ \E env \in Environments, top \in TopContents :
          /\ fs = (TopFile :> File(top)) @@ env.files
          /\ cwd = env.cwd
          /\ path_resolver = [base_path |-> "base", include_paths |-> env.include_paths]
    /\ defines = <<>>
    /\ processed_files = <<>>
    /\ pp_stack = <<>>
    /\ pp_arg = TopFile
    /\ pp_ret = NoResult
    /\ resolution = None
    /\ pp_result = NoResult
    /\ pp_pc = "call"

NextPre ==
    \/ ProcessFileSkip /\ UNCHANGED outside_pre
    \/ ProcessFileRead /\ UNCHANGED outside_pre
    \/ ProcessFileUnreadable /\ UNCHANGED outside_pre
    \/ EmitLine /\ UNCHANGED outside_pre
    \/ IncludeCall /\ UNCHANGED outside_pre
    \/ IncludeDropped /\ UNCHANGED outside_pre
    \/ ContentReturn /\ UNCHANGED outside_pre
    \/ IncludeReturn /\ UNCHANGED outside_pre
    \/ ProcessFileReturn /\ UNCHANGED outside_pre

SpecPre == InitPre /\ [][NextPre]_vars


(***************************************************************************)
(* Claims about the preprocessor (SpecPre).                                *)
(***************************************************************************)
PreprocessReturned == pp_pc = "done"

\* How often the char occurs in the text.
Occurrences(text, char) == Cardinality({i \in 1..Len(text) : text[i] = char})

\* C17: within one run each file's content is emitted at most once: the
\* returned text holds the letter of a file no more often than the file
\* itself does, also when the file is included again, directly or through
\* a cycle.
C17_EachFileEmittedOnce ==
    (PreprocessReturned /\ pp_result.ok)
        => \A location \in DOMAIN fs :
              Occurrences(pp_result.value, Letter(location))
                  <= Occurrences(fs[location].content, Letter(location))

\* C18: when the #include resolved last found no existing file, the run
\* has failed with the IncludeError that names the include path and the
\* file holding the directive.
C18_UnresolvedIncludeFails ==
    (PreprocessReturned /\ resolution # None /\ ~resolution[1].resolved.ok)
        => /\ ~pp_result.ok
           /\ pp_result.error =
                 IncludeError(resolution[1].include_path, resolution[1].source_file)

\* The candidates of the documented order for an #include of the file
\* source_file: its directory, the include directories in the order added,
\* the base directory.
DocumentedCandidates(include_path, source_file) ==
    <<join(source_file.dir, include_path)>> \o
    [i \in 1..Len(path_resolver.include_paths) |->
        join(path_resolver.include_paths[i], include_path)] \o
    <<join(path_resolver.base_path, include_path)>>

FirstExisting(candidates) ==
    CHOOSE i \in 1..Len(candidates) :
        /\ exists(fs, cwd, candidates[i])
        /\ \A j \in 1..(i - 1) : ~exists(fs, cwd, candidates[j])

\* C19: the file an #include resolves to is the first existing candidate
\* of the documented order, and the resolution fails only when no
\* candidate exists.
C19_ResolutionOrder ==
    resolution # None
        => \E c \in {DocumentedCandidates(resolution[1].include_path,
                                          resolution[1].source_file)} :
              IF \E i \in 1..Len(c) : exists(fs, cwd, c[i])
              THEN /\ resolution[1].resolved.ok
                   /\ Location(resolution[1].resolved.value, cwd)
                         = Location(c[FirstExisting(c)], cwd)
              ELSE ~resolution[1].resolved.ok

\* A // or /* outside a string literal from position i on.
RECURSIVE CommentOutsideString(_, _, _)
CommentOutsideString(text, i, in_string) ==
    IF i > Len(text) THEN FALSE
    ELSE IF in_string /\ text[i] = "\\" THEN CommentOutsideString(text, i + 2, in_string)
    ELSE IF text[i] = "\"" THEN CommentOutsideString(text, i + 1, ~in_string)
    ELSE IF ~in_string /\ i < Len(text) /\ text[i] = "/" /\ text[i + 1] \in {"/", "*"}
    THEN TRUE
    ELSE CommentOutsideString(text, i + 1, in_string)

\* C20: the returned text holds no comment: no // and no /* outside a
\* string literal.
C20_NoCommentInOutput ==
    (PreprocessReturned /\ pp_result.ok)
        => ~CommentOutsideString(pp_result.value, 1, FALSE)


\* The name occurs in the text outside a string literal, from position i on.
RECURSIVE OccursOutsideString(_, _, _, _)
OccursOutsideString(text, name, i, in_string) ==
    IF i > Len(text) THEN FALSE
    ELSE IF in_string /\ text[i] = "\\"
    THEN OccursOutsideString(text, name, i + 2, in_string)
    ELSE IF text[i] = "\"" THEN OccursOutsideString(text, name, i + 1, ~in_string)
    ELSE IF ~in_string /\ starts_with_at(text, i, name) THEN TRUE
    ELSE OccursOutsideString(text, name, i + 1, in_string)

\* The top file begins with the line  #define M 1.
DefinesMFirst ==
    \/ fs[TopFile].content = Lines[5]
    \/ starts_with_at(fs[TopFile].content, 1, Lines[5] \o <<"\n">>)

C30_SubstitutionDeterministic ==
    (pp_pc = "run" /\ CharsLeft)
        => \E line \in {LineKind(NextLine(TopFrame), defines)} :
              line.kind = "text" => Cardinality(line.outputs) = 1


\* The positions of the input where the text stands.
PositionsOf(text) == {p \in 1..Len(input) : starts_with_at(input, p, text)}

\* C28: the line recorded for a token is one more than the number of line
\* breaks before the token's first character, also behind a block comment
\* that spans several lines.  Stated for the identifier tokens whose text
\* stands at one place of the input only, which is then where they begin.
C28_TokenLineIsInputLine ==
    \A i \in 1..Len(tokens) :
        (tokens[i].token_type.tag = "Identifier"
             /\ Cardinality(PositionsOf(tokens[i].token_type.value)) = 1)
            => \E p \in PositionsOf(tokens[i].token_type.value) :
                  tokens[i].line = 1 + LineBreaksBefore(p)

(***************************************************************************)
(* ClassScanner (src/lib.rs).  parse_file, parse_string,                   *)
(* process_inheritance, process_arrays and process_file call the           *)
(* preprocessor, the tokenizer, the parser and the InheritanceVisitor; the *)
(* actions below hand the Result of one stage to the next and the stages   *)
(* run through the actions defined above.                                  *)
(***************************************************************************)
\* A crate Error as the caller of ClassScanner sees it: the stage it comes
\* from and what that stage reported.
ScanError(stage, e) == Err([stage |-> stage, error |-> e])

\* parse_file, line 111: Ok(vec![class]), class being the root node parse() returned.
parse_file_classes(parsed) == <<parsed>>

\* parse_string, lines 128-133: the root node, then clones of its nested classes.
parse_string_classes(parsed) == <<parsed>> \o parsed.nested_classes

\* InheritanceVisitor::register_class: class_map.insert(class.name.clone(), class).
register_class(cm, class) == insert(cm, class.name, class)

\* process_inheritance, lines 156-158: register_class for each class, in order.
RECURSIVE register_all(_, _)
register_all(cm, list) ==
    IF list = <<>> THEN cm
    ELSE register_all(register_class(cm, Head(list)), Tail(list))

\* ArrayVisitor::visit_class: visits the nested classes depth-first and
\* changes no field of any class.
RECURSIVE ArrayVisitor_visit_class(_)
ArrayVisitor_visit_class(class) ==
    [class EXCEPT !.nested_classes =
        [i \in 1..Len(class.nested_classes) |->
            ArrayVisitor_visit_class(class.nested_classes[i])]]

scan_own == <<base_path, entry, target_class_name, classes>>

\* parse_file, line 103: process_file failed and `?` returns its error.
PreprocessFails ==
    /\ scan_pc = "preprocess"
    /\ pp_pc = "done"
    /\ ~pp_result.ok
    /\ scan_result' = ScanError("preprocessor", pp_result.error)
    /\ scan_pc' = "done"
    /\ UNCHANGED scan_own
    /\ UNCHANGED <<arr_vars, inh_vars, tok_vars, par_vars, pre_vars>>

\* parse_file, line 106: Tokenizer::with_file_path(&content, path).
TokenizeContent ==
    /\ scan_pc = "preprocess"
    /\ pp_pc = "done"
    /\ pp_result.ok
    /\ input' = pp_result.value
    /\ preserve_comments' = FALSE
    /\ tz' = Tokenizer_new
    /\ tokens' = <<>>
    /\ tok_result' = NoResult
    /\ tok_pc' = "scan"
    /\ scan_pc' = "tokenize"
    /\ UNCHANGED <<scan_own, scan_result>>
    /\ UNCHANGED <<arr_vars, inh_vars, par_vars, pre_vars>>

\* parse_file line 107, parse_string line 124: tokenize failed.
TokenizeFails ==
    /\ scan_pc = "tokenize"
    /\ tok_pc = "done"
    /\ ~tok_result.ok
    /\ scan_result' = ScanError("tokenizer", tok_result.error)
    /\ scan_pc' = "done"
    /\ UNCHANGED scan_own
    /\ UNCHANGED <<arr_vars, inh_vars, tok_vars, par_vars, pre_vars>>

\* parse_file line 109, parse_string line 125: Parser::new(tokens).
ParseTokens ==
    /\ scan_pc = "tokenize"
    /\ tok_pc = "done"
    /\ tok_result.ok
    /\ ptokens' = tok_result.value
    /\ current' = 0
    /\ class_stack' = <<>>
    /\ root' = ClassNode_new(<<>>)
    /\ parse_result' = NoResult
    /\ parse_pc' = "parse"
    /\ scan_pc' = "parse"
    /\ UNCHANGED <<scan_own, scan_result>>
    /\ UNCHANGED <<arr_vars, inh_vars, tok_vars, pre_vars>>

\* parse_file line 110, parse_string line 126: parse failed.
ParseFails_scan ==
    /\ scan_pc = "parse"
    /\ parse_pc = "done"
    /\ ~parse_result.ok
    /\ scan_result' = ScanError("parser", parse_result.error)
    /\ scan_pc' = "done"
    /\ UNCHANGED scan_own
    /\ UNCHANGED <<arr_vars, inh_vars, tok_vars, par_vars, pre_vars>>

\* parse_file returns to process_file.
ParseFileReturn ==
    /\ scan_pc = "parse"
    /\ entry = "process_file"
    /\ parse_pc = "done"
    /\ parse_result.ok
    /\ classes' = parse_file_classes(parse_result.value)
    /\ scan_pc' = "parsed"
    /\ UNCHANGED <<base_path, entry, target_class_name, scan_result>>
    /\ UNCHANGED <<arr_vars, inh_vars, tok_vars, par_vars, pre_vars>>

\* parse_string returns to its caller, who passes the classes on.
ParseStringReturn ==
    /\ scan_pc = "parse"
    /\ entry = "parse_string"
    /\ parse_pc = "done"
    /\ parse_result.ok
    /\ classes' = parse_string_classes(parse_result.value)
    /\ scan_pc' = "parsed"
    /\ UNCHANGED <<base_path, entry, target_class_name, scan_result>>
    /\ UNCHANGED <<arr_vars, inh_vars, tok_vars, par_vars, pre_vars>>

\* process_inheritance, lines 153-158: a new InheritanceVisitor, every class registered.
RegisterClasses ==
    /\ scan_pc = "parsed"
    /\ impl' = "visitor"
    /\ class_map' = register_all(<<>>, classes)
    /\ processed' = {}
    /\ pc' = "idle"
    /\ scan_pc' = "registered"
    /\ UNCHANGED <<processing_stack, frames, arg, ret>>
    /\ UNCHANGED call_vars
    /\ UNCHANGED <<scan_own, scan_result>>
    /\ UNCHANGED <<arr_vars, tok_vars, par_vars, pre_vars>>

\* process_inheritance, line 161: inheritance_visitor.process(target_class_name).
ProcessTarget ==
    /\ scan_pc = "registered"
    /\ Process(target_class_name)
    /\ scan_pc' = "inherit"
    /\ UNCHANGED <<scan_own, scan_result>>
    /\ UNCHANGED <<arr_vars, tok_vars, par_vars, pre_vars>>

\* process_file, line 199: process_inheritance failed.
InheritanceFails ==
    /\ scan_pc = "inherit"
    /\ pc = "done"
    /\ ~result.ok
    /\ scan_result' = ScanError("inheritance", result.error)
    /\ scan_pc' = "done"
    /\ UNCHANGED scan_own
    /\ UNCHANGED <<arr_vars, inh_vars, tok_vars, par_vars, pre_vars>>

\* process_file, lines 202-204: process_arrays on the processed class, which
\* is then returned.
ProcessArrays ==
    /\ scan_pc = "inherit"
    /\ pc = "done"
    /\ result.ok
    /\ scan_result' = Ok(ArrayVisitor_visit_class(result.value))
    /\ scan_pc' = "done"
    /\ UNCHANGED scan_own
    /\ UNCHANGED <<arr_vars, inh_vars, tok_vars, par_vars, pre_vars>>

(***************************************************************************)
(* ClassScanner inputs.                                                    *)
(***************************************************************************)
\* The texts, by number:
\*    1  class A{class N{};};
\*    2  class B{q[]={1};};\nclass A:B{q[]+={2};};
\*    3  class A:A{};
\*    4  class A:C{};
\*    5  class A{x=1};
\*    6  class A{
\*    7  class{
\*    8  enum E{a};x;
\*    9  enum E
\*   10  "s
\*   11  class A{;};
\*   12  class A{x=1;};\nclass A{x=2;};
\*   13  class B{class N{x=1;};};\nclass A:B{class N:C{};};
\*   14  class B;\nclass A:B{};
ScanTexts ==
    << <<"c", "l", "a", "s", "s", " ", "A", "{", "c", "l", "a", "s", "s", " ", "N", "{", "}", ";", "}", ";">>,
       <<"c", "l", "a", "s", "s", " ", "B", "{", "q", "[", "]", "=", "{", "1", "}", ";", "}", ";", "\n", "c", "l", "a", "s", "s", " ", "A", ":", "B", "{", "q", "[", "]", "+", "=", "{", "2", "}", ";", "}", ";">>,
       <<"c", "l", "a", "s", "s", " ", "A", ":", "A", "{", "}", ";">>,
       <<"c", "l", "a", "s", "s", " ", "A", ":", "C", "{", "}", ";">>,
       <<"c", "l", "a", "s", "s", " ", "A", "{", "x", "=", "1", "}", ";">>,
       <<"c", "l", "a", "s", "s", " ", "A", "{">>,
       <<"c", "l", "a", "s", "s", "{">>,
       <<"e", "n", "u", "m", " ", "E", "{", "a", "}", ";", "x", ";">>,
       <<"e", "n", "u", "m", " ", "E">>,
       <<"\"", "s">>,
       <<"c", "l", "a", "s", "s", " ", "A", "{", ";", "}", ";">>,
       <<"c", "l", "a", "s", "s", " ", "A", "{", "x", "=", "1", ";", "}", ";", "\n", "c", "l", "a", "s", "s", " ", "A", "{", "x", "=", "2", ";", "}", ";">>,
       <<"c", "l", "a", "s", "s", " ", "B", "{", "c", "l", "a", "s", "s", " ", "N", "{", "x", "=", "1", ";", "}", ";", "}", ";", "\n", "c", "l", "a", "s", "s", " ", "A", ":", "B", "{", "c", "l", "a", "s", "s", " ", "N", ":", "C", "{", "}", ";", "}", ";">>,
       <<"c", "l", "a", "s", "s", " ", "B", ";", "\n", "c", "l", "a", "s", "s", " ", "A", ":", "B", "{", "}", ";">> >>

\* The file a of directory src: a text, alone or after an include line.
ScanFiles ==
    {ScanTexts[i] : i \in 1..Len(ScanTexts)}
        \cup {IncludesB \o ScanTexts[1], IncludesA \o ScanTexts[3],
              IncludesB \o IncludesB \o ScanTexts[4]}

ScanTargets == {<<>>, <<"A">>, <<"B">>, <<"N">>}

\* ClassScanner::new() or ::new().with_base_path("base"), then either
\* process_file("src/a", target), the file being there or not, or
\* parse_string(text) followed by process_inheritance(classes, target) and
\* process_arrays.
InitScan ==
    /\ IdleArr
    /\ IdleInh
    /\ IdlePar
    /\ target_class_name \in ScanTargets
    /\ classes = <<>>
    /\ scan_result = NoResult
    /\ \/ /\ entry = "process_file"
          /\ base_path \in {None, Some("base")}
          /\ IdleTok
          /\ \E env \in Environments :
                /\ \/ \E top \in ScanFiles : fs = (TopFile :> File(top)) @@ env.files
                   \/ fs = env.files
                /\ cwd = env.cwd
          /\ path_resolver =
                [base_path |-> IF base_path # None THEN base_path[1]
                               ELSE Path_parent(TopFile)[1],
                 include_paths |-> <<>>]
          /\ defines = <<>>
          /\ processed_files = <<>>
          /\ pp_stack = <<>>
          /\ pp_arg = TopFile
          /\ pp_ret = NoResult
          /\ resolution = None
          /\ pp_result = NoResult
          /\ pp_pc = "call"
          /\ scan_pc = "preprocess"
       \/ /\ entry = "parse_string"
          /\ base_path = None
          /\ IdlePre
          /\ \E i \in 1..Len(ScanTexts) : input = ScanTexts[i]
          /\ preserve_comments = FALSE
          /\ tz = Tokenizer_new
          /\ tokens = <<>>
          /\ tok_result = NoResult
          /\ tok_pc = "scan"
          /\ scan_pc = "tokenize"

\* A processed class is met again only by a second process call on the same
\* visitor; process_inheritance makes one call on a new one.
NextScan ==
    \/ PreprocessFails
    \/ TokenizeContent
    \/ TokenizeFails
    \/ ParseTokens
    \/ ParseFails_scan
    \/ ParseFileReturn
    \/ ParseStringReturn
    \/ RegisterClasses
    \/ ProcessTarget
    \/ InheritanceFails
    \/ ProcessArrays
    \/ (scan_pc = "preprocess" /\ ProcessFileSkip /\ UNCHANGED outside_pre)
    \/ (scan_pc = "preprocess" /\ ProcessFileRead /\ UNCHANGED outside_pre)
    \/ (scan_pc = "preprocess" /\ ProcessFileUnreadable /\ UNCHANGED outside_pre)
    \/ (scan_pc = "preprocess" /\ EmitLine /\ UNCHANGED outside_pre)
    \/ (scan_pc = "preprocess" /\ IncludeCall /\ UNCHANGED outside_pre)
    \/ (scan_pc = "preprocess" /\ IncludeDropped /\ UNCHANGED outside_pre)
    \/ (scan_pc = "preprocess" /\ ContentReturn /\ UNCHANGED outside_pre)
    \/ (scan_pc = "preprocess" /\ IncludeReturn /\ UNCHANGED outside_pre)
    \/ (scan_pc = "preprocess" /\ ProcessFileReturn /\ UNCHANGED outside_pre)
    \/ (scan_pc = "tokenize" /\ TokenizePush /\ UNCHANGED outside_tok)
    \/ (scan_pc = "tokenize" /\ TokenizeEnd /\ UNCHANGED outside_tok)
    \/ (scan_pc = "tokenize" /\ TokenizeFail /\ UNCHANGED outside_tok)
    \/ (scan_pc = "parse" /\ ParseSkipToken /\ UNCHANGED outside_par)
    \/ (scan_pc = "parse" /\ ParseSkipEnum /\ UNCHANGED outside_par)
    \/ (scan_pc = "parse" /\ ParseEnumFails /\ UNCHANGED outside_par)
    \/ (scan_pc = "parse" /\ ParseReturn /\ UNCHANGED outside_par)
    \/ (scan_pc = "parse" /\ ClassDeclaration /\ UNCHANGED outside_par)
    \/ (scan_pc = "parse" /\ ClassOpen /\ UNCHANGED outside_par)
    \/ (scan_pc = "parse" /\ ClassHeaderFails /\ UNCHANGED outside_par)
    \/ (scan_pc = "parse" /\ BodySemicolon /\ UNCHANGED outside_par)
    \/ (scan_pc = "parse" /\ BodyProperty /\ UNCHANGED outside_par)
    \/ (scan_pc = "parse" /\ BodyPropertyFails /\ UNCHANGED outside_par)
    \/ (scan_pc = "parse" /\ ClassClose /\ UNCHANGED outside_par)
    \/ (scan_pc = "parse" /\ ClassCloseFails /\ UNCHANGED outside_par)
    \/ (scan_pc = "inherit" /\ DetectCycle /\ UNCHANGED outside_inh)
    \/ (scan_pc = "inherit" /\ ClassNotFound /\ UNCHANGED outside_inh)
    \/ (scan_pc = "inherit" /\ EnterWithParent /\ UNCHANGED outside_inh)
    \/ (scan_pc = "inherit" /\ FinishWithoutParent /\ UNCHANGED outside_inh)
    \/ (scan_pc = "inherit" /\ MergeParent /\ UNCHANGED outside_inh)
    \/ (scan_pc = "inherit" /\ SkipCircularParent /\ UNCHANGED outside_inh)
    \/ (scan_pc = "inherit" /\ PropagateError /\ UNCHANGED outside_inh)
    \/ (scan_pc = "inherit" /\ ReturnToCaller /\ UNCHANGED outside_inh)

SpecScan == InitScan /\ [][NextScan]_vars

(***************************************************************************)
(* Claims about ClassScanner (SpecScan).                                   *)
(***************************************************************************)
ScanReturned == scan_pc = "done"

\* The parser returned a tree to the scanner.
Parsed == parse_pc = "done" /\ parse_result.ok

\* The names of the classes declared inside class, at any depth.
RECURSIVE DeclaredNames(_)
DeclaredNames(class) ==
    UNION {{class.nested_classes[i].name} \cup DeclaredNames(class.nested_classes[i]) :
              i \in 1..Len(class.nested_classes)}

TopLevelNames(parsed) ==
    {parsed.nested_classes[i].name : i \in 1..Len(parsed.nested_classes)}

ClassNotFoundFor(r, class_name) ==
    /\ ~r.ok
    /\ r.error.stage = "inheritance"
    /\ r.error.error = NotFoundMsg(class_name)

\* C22: ClassScanner::process_file(path, target) fails with a class-not-found
\* error for target only when the file declares no class named target at its
\* top level; for a declared one it goes on to resolve that class.
C22_ProcessFileFindsTopLevelClass ==
    (ScanReturned /\ entry = "process_file" /\ Parsed
         /\ target_class_name \in TopLevelNames(parse_result.value))
        => ~ClassNotFoundFor(scan_result, target_class_name)

\* The class registered last among those of list that carry the name.
LastNamed(list, name) ==
    list[CHOOSE i \in 1..Len(list) :
            /\ list[i].name = name
            /\ \A j \in (i + 1)..Len(list) : list[j].name # name]

\* C23: when process_inheritance has registered the classes and resolution is
\* about to begin, the registry holds every parsed class, top-level and
\* nested at any depth, under its name; of several registered classes with
\* one name it holds the one registered last.
C23_RegistryHoldsEveryParsedClass ==
    (scan_pc = "registered")
        => /\ DeclaredNames(parse_result.value) \subseteq DOMAIN class_map
           /\ \A n \in DOMAIN class_map : class_map[n] = LastNamed(classes, n)

(***************************************************************************)
(* Claims about what a resolution leaves alone (Spec).                     *)
(***************************************************************************)
SameDeclaration(resolved, declared) ==
    /\ resolved.name = declared.name
    /\ resolved.parent = declared.parent
    /\ resolved.access = declared.access
    /\ resolved.raw_block = declared.raw_block
    /\ resolved.file_path = declared.file_path

\* The resolved class and the nested classes it was declared with carry the
\* declared name, parent, access, raw_block and file_path.
KeepsDeclaration(resolved, declared) ==
    /\ SameDeclaration(resolved, declared)
    /\ Len(resolved.nested_classes) >= Len(declared.nested_classes)
    /\ \A i \in 1..Len(declared.nested_classes) :
          SameDeclaration(resolved.nested_classes[i], declared.nested_classes[i])

\* C24: merging a parent into a child changes only the child's properties and
\* nested classes: every ClassNode a resolution returns, to the caller, to the
\* invocation above it or in the list of resolve(), keeps the name, parent,
\* access, raw_block and file_path the class was registered with.
C24_MergeKeepsDeclaration ==
    /\ (pc = "done" /\ mode = "single" /\ result.ok)
          => KeepsDeclaration(result.value, class_map[target])
    /\ (pc = "ret" /\ ret.ok)
          => KeepsDeclaration(ret.value, class_map[ret.value.name])
    /\ \A i \in 1..Len(resolved_classes) :
          KeepsDeclaration(resolved_classes[i], class_map[resolved_classes[i].name])

\* A child whose parent differs from it in access, raw_block and file_path was
\* resolved and took a property over from the parent.
C24_Witness ==
    /\ pc = "done" /\ mode = "single" /\ result.ok
    /\ class_map[target].parent # None
    /\ class_map[target].parent[1] \in DOMAIN class_map
    /\ \E parent \in {class_map[class_map[target].parent[1]]} :
          /\ parent.access # class_map[target].access
          /\ parent.raw_block # class_map[target].raw_block
          /\ parent.file_path # class_map[target].file_path
          /\ \E n \in DOMAIN result.value.properties :
                /\ n \notin DOMAIN class_map[target].properties
                /\ n \in DOMAIN parent.properties

\* The registered classes on the parent chain of class_name.
ChainClasses(cm, class_name) ==
    {cm[n] : n \in Range(ParentChain(cm, class_name, {})) \cap DOMAIN cm}

\* The property names the nested classes called name declare inside the
\* classes of the chain.
NestedDeclaredIn(class, name) ==
    UNION {DOMAIN class.nested_classes[i].properties :
              i \in {j \in 1..Len(class.nested_classes) :
                        class.nested_classes[j].name = name}}

NestedDeclared(cm, class_name, name) ==
    UNION {NestedDeclaredIn(c, name) : c \in ChainClasses(cm, class_name)}

\* C29: process(C) / resolve_class(C) enters only the classes on C's own
\* parent chain, and a nested class of the result holds only properties that
\* same-named nested classes of C and its ancestors declare: nothing comes
\* from the class the nested class names as its parent.
C29_NestedParentNotFollowed ==
    /\ (pc = "call" /\ mode = "single")
          => arg \in Range(ParentChain(class_map, target, {}))
    /\ (pc = "done" /\ mode = "single" /\ result.ok)
          => \A i \in 1..Len(result.value.nested_classes) :
                DOMAIN result.value.nested_classes[i].properties
                    \subseteq NestedDeclared(class_map, target,
                                             result.value.nested_classes[i].name)

\* A class with a registered parent was resolved; its nested class names a
\* registered class as parent and holds none of that class's own properties.
C29_Witness ==
    /\ pc = "done" /\ mode = "single" /\ result.ok
    /\ class_map[target].parent # None
    /\ class_map[target].parent[1] \in DOMAIN class_map
    /\ \E i \in 1..Len(result.value.nested_classes) :
          \E nested \in {result.value.nested_classes[i]} :
             /\ nested.parent # None
             /\ nested.parent[1] \in DOMAIN class_map
             /\ class_map[nested.parent[1]].properties # <<>>
             /\ DOMAIN class_map[nested.parent[1]].properties
                   \cap DOMAIN nested.properties = {}

\* process / resolve_class returned a class-not-found error.
FailedNotFound ==
    /\ pc = "done" /\ mode = "single"
    /\ ~result.ok
    /\ \E class_name \in Names \cup {Missing} : result.error = NotFoundMsg(class_name)

TagsOf(types) == [i \in 1..Len(types) |-> types[i].tag]

\* The token kinds of the streams that end inside a class block, a property,
\* an array value or an enum block.
EndsInsideTags ==
    UNION {{TagsOf(CutMember(lead, open, m, k)) : k \in 0..(Len(Fragments[m]) - 1)} :
              lead \in Leads, open \in OpenBlocks, m \in MemberFragments}
        \cup {TagsOf(CutEnum(lead, k)) : lead \in Leads, k \in 1..(EnumClose - 1)}

EndsInsideConstruct == TagsOf(TokenTypes(ptokens)) \in EndsInsideTags

\* C25: when the token stream ends inside a construct (a class block that is
\* not closed, an array value that is not closed, a property without value or
\* without semicolon, an enum block that is not closed), parse returns a
\* ParseError and no tree.
C25_EndInsideConstructFails ==
    (ParseReturned /\ EndsInsideConstruct)
        => /\ ~parse_result.ok
           /\ parse_result.error.kind = "ParseError"

\* parse failed at the end of a stream that stops inside an array value.
C25_Witness ==
    /\ ParseReturned
    /\ EndsInsideConstruct
    /\ ~parse_result.ok
    /\ current = Len(ptokens)
    /\ \E i \in 1..Len(ptokens) :
          /\ ptokens[i].token_type.tag = "ArrayMarker"
          /\ \A j \in (i + 1)..Len(ptokens) : ptokens[j].token_type.tag # "RightBrace"
          /\ \E j \in (i + 1)..Len(ptokens) : ptokens[j].token_type.tag = "LeftBrace"

\* C27: Parser::parse terminates on every finite token sequence.  The cursor
\* never exceeds the number of tokens; while parse runs, some turn of its
\* loops can be taken and changes the state; every turn of the loops of parse
\* and parse_class (a property with its array value and an enum block are
\* one turn each) moves the cursor forward or returns; every turn of the
\* loop of skip_enum_block moves the cursor forward and not beyond the end.
C27_ParseTerminates ==
    /\ [](/\ current <= Len(ptokens)
          /\ parse_pc = "parse" => ENABLED <<NextPar>>_vars
          /\ \A c \in 0..(Len(ptokens) - 1), depth \in 1..2 :
                \E s \in {enum_step(ptokens, c, depth, ptokens[c + 1].token_type)} :
                   s.cur > c /\ s.cur <= Len(ptokens))
    /\ [][parse_pc = "parse" => (current' > current \/ parse_pc' = "done")]_vars

\* parse returned a tree after skipping a token, skipping an enum block and
\* reading a class with an array property.
C27_Witness ==
    /\ ParseReturned
    /\ parse_result.ok
    /\ current = Len(ptokens)
    /\ \E i \in 1..Len(ptokens) : ptokens[i].token_type.tag = "Enum"
    /\ \E i \in 1..Len(ptokens) : ptokens[i].token_type.tag = "ArrayMarker"
    /\ parse_result.value.nested_classes # <<>>

====
